---------------------------- MODULE Spec2Model ----------------------------
(***************************************************************************)
(* The Helium front end: the lexer of src/src/common.c (lexer_new, lexify, *)
(* lex, lexadvance, check_pattern, determine_nature, lexerror), the parser *)
(* of src/unnamed/part_001 (lines 257-798) and the driver of               *)
(* src/src/main.c.                                                         *)
(*                                                                         *)
(* A character is a one-character string, a C string is a sequence of      *)
(* characters, NUL is the terminator '\0'.  Offsets are 0-based as in the  *)
(* C code; Mem reads the 0-based cell of a 1-based TLA+ sequence.          *)
(***************************************************************************)
EXTENDS Integers, Sequences, FiniteSets, TLC

VARIABLES
    source,     \* main: src, the text of the file (without its terminator)
    tail,       \* the bytes met so far behind the terminator (string overrun)
    lx,         \* main: lx, the lexer (pos, current, lookahead)
    tokens,     \* main: tokens, the vector lexify fills
    pc,         \* main's position: "main", "read", "lexify", "parse", "blk", "compile", "done",
                \* or "exit" (an error was reported), "crash" (a read behind the memory)
    p,          \* main: p, the parser (position; eaten is the history of eat)
    blk,        \* parse: the block parse_block(p, LX_EOF) is filling
    tree,       \* main: tree, the node parse returned
    report,     \* what lexerror / parsererror printed before exit(0)
    compiled,   \* whether compile(&pp, tree) was called
    arena,      \* the compiler's programs: arena[1] is the top-level program
    ret         \* the compiler call made last, with what it returned

vars == <<source, tail, lx, tokens, pc, p, blk, tree, report, compiled, arena, ret>>

---------------------------------------------------------------------------
(* Bounds of the model. *)

MaxLexemes == 3      \* the pieces a source text is made of
MaxOverrun == 2      \* the bytes behind the terminator the process can read
MaxOperators == 2    \* the binary operators of an expression given to the parser
MaxPrefix == 1       \* the operator tokens in front of one operand
MaxClauses == 2      \* the else clauses behind an if
MaxNewlines == 2     \* the LX_NEWLINE tokens put into a program

---------------------------------------------------------------------------
(* Characters. *)

NUL == "NUL"
Indet == "INDET"     \* a cell behind the bytes known so far: its value is not known

Letters == {"a", "b", "c", "d", "e", "f", "g", "h", "i", "j", "k", "l", "m",
            "n", "o", "p", "q", "r", "s", "t", "u", "v", "w", "x", "y", "z"}
Digits == {"0", "1", "2", "3", "4", "5", "6", "7", "8", "9"}

isalpha(c) == c \in Letters
isdigit(c) == c \in Digits
isalnum(c) == isalpha(c) \/ isdigit(c)

\* The pieces the sources of the model are made of: an identifier character,
\* a digit, a closed string, a lone quote, the assignment glyph, operators,
\* a character no token starts with, blank, newline, comment.
Lexemes == { <<"a">>, <<"1">>, <<"\"", "a", "\"">>, <<"\"">>, <<"<", "-">>, <<"<">>,
             <<"=">>, <<"&">>, <<" ">>, <<"\n">>, <<"#">> }
\* The classes of byte the lexer tells apart behind the terminator.
GarbageBytes == {"\"", NUL, "a"}

RECURSIVE SeqsUpTo(_, _)
SeqsUpTo(S, n) ==
    IF n = 0 THEN {<<>>}
    ELSE LET shorter == SeqsUpTo(S, n - 1)
         IN  shorter \cup {Append(s, c) : s \in {t \in shorter : Len(t) = n - 1}, c \in S}

RECURSIVE Flatten(_)
Flatten(ss) == IF ss = <<>> THEN <<>> ELSE Head(ss) \o Flatten(Tail(ss))

\* Identifiers: the reserved words and words that hold one.
Words ==
    { <<"t", "r", "u", "e">>, <<"f", "a", "l", "s", "e">>, <<"n", "u", "l", "l">>,
      <<"r", "e", "t", "u", "r", "n">>, <<"i", "f">>, <<"e", "l", "s", "e">>,
      <<"l", "o", "o", "p">>, <<"i", "n", "c", "l", "u", "d", "e">>,
      <<"i", "f", "1">>, <<"_", "i", "f">>, <<"n", "u", "l", "l", "_">>, <<"x">> }
\* A word alone, two words on one line, a word between other tokens.
WordSources ==
    Words \cup {w \o <<" ">> \o v : w \in Words, v \in Words}
          \cup {<<"1", "<">> \o w \o <<"\n">> : w \in Words}

Sources == {Flatten(ss) : ss \in SeqsUpTo(Lexemes, MaxLexemes)} \cup WordSources
Exts == SeqsUpTo(GarbageBytes, MaxOverrun)

Front(s) == SubSeq(s, 1, Len(s) - 1)

\* source[i] of the C code, on the bytes m known so far.
Mem(m, i) == IF i >= 0 /\ i < Len(m) THEN m[i + 1] ELSE Indet

\* A C string ends at its first NUL: what strlen / strcpy see of a buffer.
RECURSIVE CString(_)
CString(buf) ==
    IF buf = <<>> \/ Head(buf) = NUL THEN <<>>
    ELSE <<Head(buf)>> \o CString(Tail(buf))

---------------------------------------------------------------------------
(* The lexer. *)

lexer_new(src) ==
    [ pos |-> [col_pos |-> -1, line_pos |-> 0, char_offset |-> -1, line_offset |-> 0],
      current |-> NUL,
      lookahead |-> Mem(src, 0) ]

clone_pos(original) ==
    [ col_pos |-> original.col_pos, line_pos |-> original.line_pos,
      char_offset |-> original.char_offset, line_offset |-> original.line_offset ]

lxtoken_new(value, type, pos) == [pos |-> pos, type |-> type, value |-> value]

\* lx->lookahead is source[char_offset + 1]; a cell not known when it was read
\* is read again on the bytes known now.
Lookahead(m, l) ==
    IF l.lookahead = Indet THEN Mem(m, l.pos.char_offset + 1) ELSE l.lookahead

\* The step over a character with a newline counted like any other.
lexadvance_one_line(m, l) ==
    [ current |-> Lookahead(m, l),
      lookahead |-> Mem(m, l.pos.char_offset + 2),
      pos |-> [ col_pos |-> l.pos.col_pos + 1, line_pos |-> l.pos.line_pos,
                char_offset |-> l.pos.char_offset + 1, line_offset |-> l.pos.line_offset ] ]

lexadvance(m, l) ==
    LET cur == Lookahead(m, l)
        off == l.pos.char_offset + 1
    IN  [ current |-> cur,
          lookahead |-> Mem(m, off + 1),
          pos |-> IF cur = "\n"
                  THEN [ col_pos |-> -1, line_pos |-> l.pos.line_pos + 1,
                         char_offset |-> off, line_offset |-> off + 1 ]
                  ELSE [ col_pos |-> l.pos.col_pos + 1, line_pos |-> l.pos.line_pos,
                         char_offset |-> off, line_offset |-> l.pos.line_offset ] ]

determine_nature(s) ==
    IF s = <<"f", "a", "l", "s", "e">> \/ s = <<"t", "r", "u", "e">> THEN "LX_BOOL"
    ELSE IF s = <<"n", "u", "l", "l">> THEN "LX_NULL"
    ELSE IF s = <<"r", "e", "t", "u", "r", "n">> THEN "LX_RETURN"
    ELSE "LX_SYMBOL"

\* check_pattern's comparison loop; need: it read a cell that is not known.
RECURSIVE PatternMatches(_, _, _, _)
PatternMatches(m, l, pattern, i) ==
    IF i >= Len(pattern) THEN [ok |-> TRUE, need |-> FALSE]
    ELSE LET c == Mem(m, l.pos.char_offset + i + 1)
         IN  IF c = Indet THEN [ok |-> FALSE, need |-> TRUE]
             ELSE IF c # pattern[i + 1] THEN [ok |-> FALSE, need |-> FALSE]
             ELSE PatternMatches(m, l, pattern, i + 1)

RECURSIVE AdvanceTimes(_, _, _)
AdvanceTimes(m, l, n) ==
    IF n = 0 THEN l ELSE AdvanceTimes(m, lexadvance(m, l), n - 1)

check_pattern(m, l, pattern) ==
    LET r == PatternMatches(m, l, pattern, 0)
    IN  [ ok |-> r.ok, need |-> r.need,
          lx |-> IF r.ok THEN AdvanceTimes(m, l, Len(pattern)) ELSE l ]

\* do buf[len++] = lexadvance(lx); while (isalnum(lookahead) || isdigit(lookahead) || lookahead == '_');
RECURSIVE ScanIdentifier(_, _, _)
ScanIdentifier(m, l, buf) ==
    LET l1 == lexadvance(m, l)
        b1 == Append(buf, l1.current)
    IN  IF l1.lookahead = Indet THEN [lx |-> l1, buf |-> b1, need |-> TRUE]
        ELSE IF isalnum(l1.lookahead) \/ isdigit(l1.lookahead) \/ l1.lookahead = "_"
             THEN ScanIdentifier(m, l1, b1)
        ELSE [lx |-> l1, buf |-> b1, need |-> FALSE]

\* do buf[len++] = lexadvance(lx); while (isdigit(lookahead));
RECURSIVE ScanInteger(_, _, _)
ScanInteger(m, l, buf) ==
    LET l1 == lexadvance(m, l)
        b1 == Append(buf, l1.current)
    IN  IF l1.lookahead = Indet THEN [lx |-> l1, buf |-> b1, need |-> TRUE]
        ELSE IF isdigit(l1.lookahead) THEN ScanInteger(m, l1, b1)
        ELSE [lx |-> l1, buf |-> b1, need |-> FALSE]

\* while ((c = lexadvance(lx)) != '"') buf[len++] = c;
\* The loop has no test for the terminator: it runs on behind it.
RECURSIVE ScanString(_, _, _)
ScanString(m, l, buf) ==
    IF Lookahead(m, l) = Indet THEN [lx |-> l, buf |-> buf, need |-> TRUE]
    ELSE LET l1 == lexadvance(m, l)
         IN  IF l1.current = "\"" THEN [lx |-> l1, buf |-> buf, need |-> FALSE]
             ELSE ScanString(m, l1, Append(buf, l1.current))

Operators1 == {"+", "-", "/", "*", "%", "<", ">", "&", "|", "^", "~"}

\* The switch of lex on the character it advanced over; "" is the default case.
SingleCharType(c) ==
    CASE c = NUL -> "LX_EOF"
      [] c = "\n" -> "LX_NEWLINE"
      [] c \in {" ", "\r", "\t"} -> "LX_WHITESPACE"
      [] c = "{" -> "LX_LEFT_BRACE"
      [] c = "}" -> "LX_RIGHT_BRACE"
      [] c \in Operators1 -> "LX_OPERATOR"
      [] c = "(" -> "LX_LEFT_PAREN"
      [] c = ")" -> "LX_RIGHT_PAREN"
      [] c = "#" -> "LX_COMMENT"
      [] c = "@" -> "LX_CALL"
      [] c = "," -> "LX_SEPARATOR"
      [] c = "$" -> "LX_FUNCTION"
      [] OTHER -> ""

\* The cursor's position taken as it is, without the step onto the token.
TokenPos_unadvanced(l) ==
    clone_pos(l.pos)

\* The position lex gives its token: the cursor's, one column and one offset on.
TokenPos(l) ==
    LET pos == clone_pos(l.pos)
    IN  [pos EXCEPT !.col_pos = pos.col_pos + 1, !.char_offset = pos.char_offset + 1]

\* One call of lex on the bytes m.  error: lexerror was called (and exited);
\* need: the call read, and branched on, a cell that m does not hold.
lex(m, l) ==
    LET pos == TokenPos(l)
        la == Lookahead(m, l)
        Out(l1, buf, type) ==
            [ lx |-> l1, token |-> lxtoken_new(CString(buf), type, pos),
              error |-> FALSE, need |-> FALSE ]
        Need == [ lx |-> l, token |-> lxtoken_new(<<>>, "", pos),
                  error |-> FALSE, need |-> TRUE ]
    IN  IF la = Indet THEN Need
        ELSE IF isalpha(la) \/ la = "_" THEN
            LET r == ScanIdentifier(m, l, <<>>)
            IN  IF r.need THEN Need ELSE Out(r.lx, r.buf, determine_nature(r.buf))
        ELSE IF isdigit(la) THEN
            LET r == ScanInteger(m, l, <<>>)
            IN  IF r.need THEN Need ELSE Out(r.lx, r.buf, "LX_INTEGER")
        ELSE IF la = "\"" THEN
            LET r == ScanString(m, lexadvance(m, l), <<>>)
            IN  IF r.need THEN Need ELSE Out(r.lx, r.buf, "LX_STRING")
        ELSE LET a == check_pattern(m, l, <<"<", "-">>)
                 le == check_pattern(m, l, <<"<", "=">>)
                 ge == check_pattern(m, l, <<">", "=">>)
             IN  IF a.need THEN Need
                 ELSE IF a.ok THEN Out(a.lx, <<>>, "LX_ASSIGN")
                 ELSE IF le.need THEN Need
                 ELSE IF le.ok THEN Out(le.lx, <<>>, "LX_OPERATOR")
                 ELSE IF ge.need THEN Need
                 ELSE IF ge.ok THEN Out(ge.lx, <<>>, "LX_OPERATOR")
                 ELSE LET l1 == lexadvance(m, l)
                          c == l1.current
                          type == SingleCharType(c)
                      IN  IF type = ""
                          THEN [ lx |-> l1, token |-> lxtoken_new(<<>>, "", pos),
                                 error |-> TRUE, need |-> FALSE ]
                          ELSE Out(l1, IF type = "LX_OPERATOR" THEN <<c>> ELSE <<>>, type)

\* The report with the cursor's 0-based column.
lexerror_zero_based(l, msg) ==
    [stage |-> "lex", msg |-> msg, line |-> l.pos.line_pos + 1, col |-> l.pos.col_pos]

\* fprintf(stderr, "[err] %s (%d, %d)", msg, line_pos + 1, col_pos + 1); exit(0)
lexerror(l, msg) ==
    [stage |-> "lex", msg |-> msg, line |-> l.pos.line_pos + 1, col |-> l.pos.col_pos + 1]

---------------------------------------------------------------------------
(* The parser: token traversal.  tk is p->tokens; a parser value is         *)
(* [position, eaten], eaten being the history of eat: which token each call *)
(* took and the function that asked for it.                                 *)

NoPos == [col_pos |-> -1, line_pos |-> -1, char_offset |-> -1, line_offset |-> -1]
NoNode == [type |-> "", value |-> <<>>, pos |-> NoPos, children |-> <<>>]

parser_new == [position |-> 0, eaten |-> <<>>]

peek(tk, q) == tk[q.position + 1]

\* lookahead returns NULL behind the vector; NoToken stands for it.
NoToken == [pos |-> NoPos, type |-> "", value |-> <<>>]
lookahead(tk, q) ==
    IF q.position + 1 < Len(tk) THEN tk[q.position + 2] ELSE NoToken

\* The end of the vector only: LX_EOF is a token like another.
is_empty_behind(tk, q) == q.position >= Len(tk)

is_empty(tk, q) == q.position >= Len(tk) \/ peek(tk, q).type = "LX_EOF"

eat(tk, q, by) ==
    IF ~is_empty(tk, q)
    THEN [ tok |-> peek(tk, q),
           p |-> [ position |-> q.position + 1,
                   eaten |-> Append(q.eaten, [at |-> q.position, by |-> by]) ] ]
    ELSE [tok |-> NoToken, p |-> q]

\* A result of a parsing function: err is the message parsererror was called
\* with ("" when it was not); the cursor q stays where the error was raised.
Ok(node, q) == [node |-> node, p |-> q, err |-> ""]
Err(q, msg) == [node |-> NoNode, p |-> q, err |-> msg]

\* consume without the call of parsererror: the other kind is passed over in
\* silence.
consume_silent(tk, q, type, by) ==
    IF ~is_empty(tk, q) /\ peek(tk, q).type = type
    THEN LET e == eat(tk, q, by) IN [tok |-> e.tok, p |-> e.p, err |-> ""]
    ELSE [tok |-> NoToken, p |-> q, err |-> ""]

consume(tk, q, type, by) ==
    IF ~is_empty(tk, q) /\ peek(tk, q).type = type
    THEN LET e == eat(tk, q, by) IN [tok |-> e.tok, p |-> e.p, err |-> ""]
    ELSE [tok |-> NoToken, p |-> q, err |-> "Unexpected token"]

consume_optional(tk, q, type, by) ==
    IF ~is_empty(tk, q) /\ peek(tk, q).type = type
    THEN [ok |-> TRUE, p |-> eat(tk, q, by).p]
    ELSE [ok |-> FALSE, p |-> q]

RECURSIVE strip_newlines(_, _)
strip_newlines(tk, q) ==
    LET c == consume_optional(tk, q, "LX_NEWLINE", "strip_newlines")
    IN  IF c.ok THEN strip_newlines(tk, c.p) ELSE q

astnode_new(value, type, pos) ==
    [value |-> value, type |-> type, children |-> <<>>, pos |-> pos]

AddChild(node, child) == [node EXCEPT !.children = Append(@, child)]

\* The marker labels the parser gives its nodes.
L_block == <<"b", "l", "o", "c", "k">>
L_conditional == <<"c", "o", "n", "d", "i", "t", "i", "o", "n", "a", "l">>
L_alt == <<"a", "l", "t">>
L_args == <<"a", "r", "g", "s">>
L_code == <<"c", "o", "d", "e">>
L_loop == <<"l", "o", "o", "p">>
L_table == <<"t", "a", "b", "l", "e">>
L_pair == <<"p", "a", "i", "r">>
L_include == <<"i", "n", "c", "l", "u", "d", "e">>
L_ret == <<"r", "e", "t">>

\* precedence: 0 stands for the default case, which calls parsererror.
precedence(op) ==
    IF op.value = <<"<", "=">> \/ op.value = <<">", "=">> THEN 8
    ELSE IF op.value = <<"=", "=">> \/ op.value = <<"!", "=">> THEN 7
    ELSE IF op.value = <<"&", "&">> THEN 3
    ELSE IF op.value = <<"|", "|">> THEN 2
    ELSE LET c == IF op.value = <<>> THEN NUL ELSE op.value[1]
         IN  CASE c = "|" -> 4
               [] c = "^" -> 5
               [] c = "&" -> 6
               [] c \in {"<", ">"} -> 8
               [] c \in {"+", "-"} -> 9
               [] c \in {"*", "/", "%"} -> 10
               [] OTHER -> 0

apply_op(operands, operators) ==
    LET op == operators[Len(operators)]
        v1 == operands[Len(operands)]
        v0 == operands[Len(operands) - 1]
        expression == astnode_new(op.value, "AST_BINARY_EXPRESSION", clone_pos(op.pos))
    IN  [ node |-> AddChild(AddChild(expression, v0), v1),
          operands |-> SubSeq(operands, 1, Len(operands) - 2),
          operators |-> Front(operators) ]

\* while (operators.size > 0 && precedence(p, op) <= precedence(p, vector_top(&operators)))
\*     vector_push(&primaries, apply_op(&primaries, &operators));
RECURSIVE ReduceWhile(_, _, _)
\* The loop with < in place of <=: operators of one level are not applied.
ReduceWhile_strict(primaries, operators, op) ==
    IF Len(operators) = 0
    THEN [primaries |-> primaries, operators |-> operators, err |-> "", p |-> parser_new]
    ELSE IF precedence(op) = 0 \/ precedence(operators[Len(operators)]) = 0
         THEN [primaries |-> primaries, operators |-> operators,
               err |-> "Unknown operator recieved", p |-> parser_new]
    ELSE IF precedence(op) < precedence(operators[Len(operators)])
         THEN LET a == apply_op(primaries, operators)
              IN  ReduceWhile(Append(a.operands, a.node), a.operators, op)
    ELSE [primaries |-> primaries, operators |-> operators, err |-> "", p |-> parser_new]

ReduceWhile(primaries, operators, op) ==
    IF Len(operators) = 0
    THEN [primaries |-> primaries, operators |-> operators, err |-> "", p |-> parser_new]
    ELSE IF precedence(op) = 0 \/ precedence(operators[Len(operators)]) = 0
         THEN [primaries |-> primaries, operators |-> operators,
               err |-> "Unknown operator recieved", p |-> parser_new]
    ELSE IF precedence(op) <= precedence(operators[Len(operators)])
         THEN LET a == apply_op(primaries, operators)
              IN  ReduceWhile(Append(a.operands, a.node), a.operators, op)
    ELSE [primaries |-> primaries, operators |-> operators, err |-> "", p |-> parser_new]

\* while (operators.size > 0) vector_push(&primaries, apply_op(&primaries, &operators));
RECURSIVE ReduceAll(_, _)
ReduceAll(primaries, operators) ==
    IF Len(operators) = 0 THEN primaries
    ELSE LET a == apply_op(primaries, operators)
         IN  ReduceAll(Append(a.operands, a.node), a.operators)

\* The glyphs with "*" among them.
UnaryGlyphs_wide == {<<"-">>, <<"+">>, <<"!">>, <<"~">>, <<"*">>}

\* The glyphs parse_primary compares an operator's value with.
UnaryGlyphs == {<<"-">>, <<"+">>, <<"!">>, <<"~">>}

---------------------------------------------------------------------------
(* The parser: the parsing functions.  Each returns [node, p, err]; once    *)
(* err is set, parsererror has exited and nothing more is done.             *)

\* r, then K on its result; when r called parsererror, nothing follows it.
Then(r, K(_)) ==
    CHOOSE y \in {IF x.err # "" THEN Err(x.p, x.err) ELSE K(x) : x \in {r}} : TRUE

RECURSIVE call(_, _, _, _)
RECURSIVE BlockLoop(_, _, _, _)
RECURSIVE ExpressionLoop(_, _, _, _)
RECURSIVE CallArguments(_, _, _)
RECURSIVE Parameters(_, _, _)
RECURSIVE ElseChain(_, _)
RECURSIVE TableEntries(_, _, _)

\* strip_newlines; consume '{'; parse_block(RIGHT_BRACE); consume '}': the body
\* that parse_function_definition, parse_loop and parse_branching all read.
Body(tk, q, by) ==
    Then(consume(tk, strip_newlines(tk, q), "LX_LEFT_BRACE", by), LAMBDA lb :
    Then(call("parse_block", tk, lb.p, "LX_RIGHT_BRACE"), LAMBDA b :
    Then(consume(tk, b.p, "LX_RIGHT_BRACE", by), LAMBDA rb :
    Ok(b.node, rb.p))))

\* The block's kind is the token kind LX_BLOCK, as the code passes it.
parse_block(tk, q, terminal) ==
    BlockLoop(tk, strip_newlines(tk, q), terminal,
              astnode_new(L_block, "LX_BLOCK", clone_pos(peek(tk, q).pos)))

\* while (!is_empty(p) && peek(p)->type != terminal) { push(parse_statement(p)); strip_newlines(p); }
BlockLoop(tk, q, terminal, block) ==
    IF ~is_empty(tk, q) /\ peek(tk, q).type # terminal
    THEN Then(call("parse_statement", tk, q, ""), LAMBDA st :
         BlockLoop(tk, strip_newlines(tk, st.p), terminal, AddChild(block, st.node)))
    ELSE Ok(block, q)

parse_statement(tk, q) ==
    LET st == astnode_new(<<>>, "AST_ASSIGN", clone_pos(peek(tk, q).pos))
        type == peek(tk, q).type
    IN  CASE type = "LX_SYMBOL" ->
               IF lookahead(tk, q).type = "LX_LEFT_SQUARE" \/ lookahead(tk, q).type = "LX_DOT"
               THEN call("parse_table_put", tk, q, "")
               ELSE Then(consume(tk, eat(tk, q, "parse_statement").p, "LX_ASSIGN",
                                 "parse_statement"), LAMBDA a :
                    Then(call("parse_expression", tk, a.p, ""), LAMBDA x :
                    Ok(AddChild([st EXCEPT !.value = peek(tk, q).value], x.node), x.p)))
          [] type = "LX_CALL" -> call("parse_function_call", tk, q, "")
          [] type = "LX_LOOP" -> call("parse_loop", tk, q, "")
          [] type = "LX_IF" -> call("parse_branching", tk, q, "")
          [] type = "LX_INCLUDE" ->
               Then(call("parse_primary", tk, eat(tk, q, "parse_statement").p, ""), LAMBDA fp :
               IF fp.node.type # "AST_STRING"
               THEN Err(fp.p, "Expected string in include statement!")
               ELSE Ok(AddChild([st EXCEPT !.type = "AST_INCLUDE", !.value = L_include],
                                fp.node), fp.p))
          [] type = "LX_RETURN" ->
               Then(call("parse_expression", tk, eat(tk, q, "parse_statement").p, ""), LAMBDA x :
               Ok(AddChild([st EXCEPT !.type = "AST_RETURN", !.value = L_ret], x.node), x.p))
          [] OTHER -> Err(q, "Invalid statement!")

parse_expression(tk, q) ==
    Then(call("parse_primary", tk, q, ""), LAMBDA first :
    ExpressionLoop(tk, first.p, <<first.node>>, <<>>))

\* while (!is_empty(p) && peek(p)->type == LX_OPERATOR) { ... }, then the
\* remaining operations and vector_pop(&primaries).
ExpressionLoop(tk, q, primaries, operators) ==
    IF ~is_empty(tk, q) /\ peek(tk, q).type = "LX_OPERATOR"
    THEN LET op == peek(tk, q)
             q1 == eat(tk, q, "parse_expression").p
         IN  Then([ReduceWhile(primaries, operators, op) EXCEPT !.p = q1], LAMBDA r :
             Then(call("parse_primary", tk, q1, ""), LAMBDA next :
             ExpressionLoop(tk, next.p, Append(r.primaries, next.node),
                            Append(r.operators, op))))
    ELSE LET rest == ReduceAll(primaries, operators)
         IN  Ok(rest[Len(rest)], q)

\* The literal with the newlines behind it taken as well.
Literal_skipping(tk, q, asttype) ==
    Ok([type |-> asttype, value |-> peek(tk, q).value, children |-> <<>>,
        pos |-> clone_pos(peek(tk, q).pos)],
       strip_newlines(tk, eat(tk, q, "parse_primary").p))

\* node->type = kind; node->value = eat(p)->value;
Literal(tk, q, asttype) ==
    Ok([type |-> asttype, value |-> peek(tk, q).value, children |-> <<>>,
        pos |-> clone_pos(peek(tk, q).pos)], eat(tk, q, "parse_primary").p)

parse_primary(tk, q) ==
    IF is_empty(tk, q) THEN Err(q, "Program has ended prematurely!")
    ELSE LET type == peek(tk, q).type
         IN  CASE type = "LX_INTEGER" -> Literal(tk, q, "AST_INTEGER")
               [] type = "LX_FLOAT" -> Literal(tk, q, "AST_FLOAT")
               [] type = "LX_BOOL" -> Literal(tk, q, "AST_BOOL")
               [] type = "LX_STRING" -> Literal(tk, q, "AST_STRING")
               [] type = "LX_NULL" -> Literal(tk, q, "AST_NULL")
               [] type = "LX_LEFT_BRACE" -> call("parse_table_instance", tk, q, "")
               [] type = "LX_SYMBOL" ->
                    IF lookahead(tk, q).type = "LX_LEFT_SQUARE" \/ lookahead(tk, q).type = "LX_DOT"
                    THEN call("parse_table_get", tk, q, "")
                    ELSE Literal(tk, q, "AST_REFERENCE")
               [] type = "LX_FUNCTION" -> call("parse_function_definition", tk, q, "")
               [] type = "LX_CALL" -> call("parse_function_call", tk, q, "")
               [] type = "LX_LEFT_PAREN" ->
                    Then(consume(tk, q, "LX_LEFT_PAREN", "parse_primary"), LAMBDA lp :
                    Then(call("parse_expression", tk, lp.p, ""), LAMBDA x :
                    Then(consume(tk, x.p, "LX_RIGHT_PAREN", "parse_primary"), LAMBDA rp :
                    Ok(x.node, rp.p))))
               [] type = "LX_OPERATOR" ->
                    IF peek(tk, q).value \notin UnaryGlyphs
                    THEN Err(q, "Invalid unary operator")
                    ELSE Then(call("parse_primary", tk, eat(tk, q, "parse_primary").p, ""),
                              LAMBDA x :
                         Ok([type |-> "AST_UNARY_EXPRESSION", value |-> peek(tk, q).value,
                             children |-> <<x.node>>, pos |-> clone_pos(peek(tk, q).pos)], x.p))
               [] OTHER -> Err(q, "Unexpected token found")

parse_function_call(tk, q) ==
    Then(consume(tk, q, "LX_CALL", "parse_function_call"), LAMBDA c :
    Then(call("parse_expression", tk, c.p, ""), LAMBDA callee :
    Then(consume(tk, callee.p, "LX_LEFT_PAREN", "parse_function_call"), LAMBDA lp :
    Then(IF ~is_empty(tk, lp.p) /\ peek(tk, lp.p).type # "LX_RIGHT_PAREN"
         THEN CallArguments(tk, lp.p, <<>>)
         ELSE Ok(<<>>, lp.p), LAMBDA args :
    Then(consume(tk, args.p, "LX_RIGHT_PAREN", "parse_function_call"), LAMBDA rp :
    Ok([type |-> "AST_CALL", pos |-> clone_pos(peek(tk, c.p).pos),
        value |-> peek(tk, c.p).value, children |-> <<callee.node>> \o args.node],
       rp.p))))))

\* do { push(parse_expression(p)); } while (consume_optional(p, LX_SEPARATOR));
\* (node: the arguments read so far)
CallArguments(tk, q, args) ==
    Then(call("parse_expression", tk, q, ""), LAMBDA x :
    IF consume_optional(tk, x.p, "LX_SEPARATOR", "parse_function_call").ok
    THEN CallArguments(tk, consume_optional(tk, x.p, "LX_SEPARATOR", "parse_function_call").p,
                       Append(args, x.node))
    ELSE Ok(Append(args, x.node), x.p))

parse_function_definition(tk, q) ==
    Then(consume(tk, q, "LX_FUNCTION", "parse_function_definition"), LAMBDA f :
    Then(consume(tk, f.p, "LX_LEFT_PAREN", "parse_function_definition"), LAMBDA lp :
    Then(IF peek(tk, lp.p).type # "LX_RIGHT_PAREN"
         THEN Parameters(tk, lp.p, astnode_new(L_args, "AST_PARAMS", clone_pos(lp.tok.pos)))
         ELSE Ok(astnode_new(L_args, "AST_PARAMS", clone_pos(lp.tok.pos)), lp.p), LAMBDA ps :
    Then(consume(tk, ps.p, "LX_RIGHT_PAREN", "parse_function_definition"), LAMBDA rp :
    Then(Body(tk, rp.p, "parse_function_definition"), LAMBDA b :
    Ok(AddChild(AddChild(astnode_new(L_code, "AST_FUNCTION", clone_pos(f.tok.pos)),
                         ps.node), b.node), b.p))))))

\* do { param = consume(p, LX_SYMBOL); push(...); } while (consume_optional(p, LX_SEPARATOR));
Parameters(tk, q, params) ==
    Then(consume(tk, q, "LX_SYMBOL", "parse_function_definition"), LAMBDA param :
    LET ps == AddChild(params, astnode_new(param.tok.value, "AST_PARAM",
                                           clone_pos(param.tok.pos)))
        sep == consume_optional(tk, param.p, "LX_SEPARATOR", "parse_function_definition")
    IN  IF sep.ok THEN Parameters(tk, sep.p, ps) ELSE Ok(ps, sep.p))

parse_loop(tk, q) ==
    Then(consume(tk, q, "LX_LOOP", "parse_loop"), LAMBDA l :
    Then(call("parse_expression", tk, l.p, ""), LAMBDA cond :
    Then(Body(tk, cond.p, "parse_loop"), LAMBDA b :
    Ok(AddChild(AddChild(astnode_new(L_loop, "AST_LOOP", clone_pos(l.tok.pos)),
                         cond.node), b.node), b.p))))

\* The branch alone: the rest of the chain is not pushed.
Chain_dropping(own, rest) == own

\* A branch with the rest of the chain (NoNode: none) pushed as its last child.
Chain(own, rest) == IF rest = NoNode THEN own ELSE AddChild(own, rest)

parse_branching(tk, q) ==
    Then(consume(tk, q, "LX_IF", "parse_branching"), LAMBDA i :
    Then(call("parse_expression", tk, i.p, ""), LAMBDA cond :
    Then(Body(tk, cond.p, "parse_branching"), LAMBDA b :
    Then(ElseChain(tk, strip_newlines(tk, b.p)), LAMBDA rest :
    Ok(Chain(AddChild(AddChild(astnode_new(L_conditional, "AST_BRANCHES",
                                           clone_pos(i.tok.pos)),
                               cond.node), b.node), rest.node), rest.p)))))

\* The while (peek(p)->type == LX_ELSE) loop from one test of its condition on:
\* the branch it builds, with the rest of the chain as that branch's last
\* child (branchx = branch), or NoNode when the loop is left.
ElseChain(tk, q) ==
    IF peek(tk, q).type # "LX_ELSE" THEN Ok(NoNode, q)
    ELSE LET branch == astnode_new(<<>>, "AST_BRANCHES", clone_pos(peek(tk, q).pos))
             i == consume_optional(tk, eat(tk, q, "parse_branching").p, "LX_IF",
                                   "parse_branching")
         IN  Then(IF i.ok THEN call("parse_expression", tk, i.p, "") ELSE Ok(NoNode, i.p),
                  LAMBDA cond :
             Then(Body(tk, cond.p, "parse_branching"), LAMBDA b :
             IF ~i.ok
             THEN Ok(AddChild([branch EXCEPT !.value = L_alt], b.node),
                     strip_newlines(tk, b.p))
             ELSE Then(ElseChain(tk, strip_newlines(tk, b.p)), LAMBDA rest :
                  Ok(Chain(AddChild(AddChild([branch EXCEPT !.value = L_conditional],
                                             cond.node), b.node), rest.node), rest.p))))

parse_table_instance(tk, q) ==
    Then(consume(tk, q, "LX_LEFT_BRACE", "parse_table_instance"), LAMBDA lb :
    Then(IF peek(tk, strip_newlines(tk, lb.p)).type # "LX_RIGHT_BRACE"
         THEN TableEntries(tk, strip_newlines(tk, lb.p),
                           astnode_new(L_table, "AST_TABLE", clone_pos(lb.tok.pos)))
         ELSE Ok(astnode_new(L_table, "AST_TABLE", clone_pos(lb.tok.pos)),
                 strip_newlines(tk, lb.p)), LAMBDA es :
    Then(consume(tk, es.p, "LX_RIGHT_BRACE", "parse_table_instance"), LAMBDA rb :
    Ok(es.node, rb.p))))

\* do { strip_newlines; key ':' value; strip_newlines; } while (consume_optional(p, LX_SEPARATOR));
TableEntries(tk, q, table) ==
    LET q1 == strip_newlines(tk, q)
        element == astnode_new(L_pair, "AST_KV_PAIR", clone_pos(peek(tk, q1).pos))
    IN  Then(call("parse_expression", tk, q1, ""), LAMBDA key :
        Then(consume(tk, key.p, "LX_COLON", "parse_table_instance"), LAMBDA colon :
        Then(call("parse_expression", tk, colon.p, ""), LAMBDA val :
        LET t1 == AddChild(table, AddChild(AddChild(element, key.node), val.node))
            sep == consume_optional(tk, strip_newlines(tk, val.p), "LX_SEPARATOR",
                                    "parse_table_instance")
        IN  IF sep.ok THEN TableEntries(tk, sep.p, t1) ELSE Ok(t1, sep.p))))

\* The key of a put or a get: '[' expression ']', '.' symbol, or nothing.
TableKey(tk, q, node, by) ==
    IF consume_optional(tk, q, "LX_LEFT_SQUARE", by).ok
    THEN Then(call("parse_expression", tk, consume_optional(tk, q, "LX_LEFT_SQUARE", by).p, ""),
              LAMBDA x :
         Then(consume(tk, x.p, "LX_RIGHT_SQUARE", by), LAMBDA rs :
         Ok(AddChild(node, x.node), rs.p)))
    ELSE IF consume_optional(tk, q, "LX_DOT", by).ok
    THEN Then(consume(tk, consume_optional(tk, q, "LX_DOT", by).p, "LX_SYMBOL", by), LAMBDA t :
         Ok(AddChild(node, astnode_new(t.tok.value, "AST_STRING", clone_pos(t.tok.pos))), t.p))
    ELSE Ok(node, q)

parse_table_put(tk, q) ==
    Then(consume(tk, q, "LX_SYMBOL", "parse_table_put"), LAMBDA var :
    Then(TableKey(tk, var.p, astnode_new(var.tok.value, "AST_PUT", clone_pos(var.tok.pos)),
                  "parse_table_put"), LAMBDA k :
    Then(consume(tk, k.p, "LX_ASSIGN", "parse_table_put"), LAMBDA a :
    Then(call("parse_expression", tk, a.p, ""), LAMBDA x :
    Ok(AddChild(k.node, x.node), x.p)))))

parse_table_get(tk, q) ==
    Then(consume(tk, q, "LX_SYMBOL", "parse_table_get"), LAMBDA var :
    TableKey(tk, var.p, astnode_new(var.tok.value, "AST_GET", clone_pos(var.tok.pos)),
             "parse_table_get"))

\* A call of one parsing function by another (x: parse_block's terminal).
call(fn, tk, q, x) ==
    CASE fn = "parse_block" -> parse_block(tk, q, x)
      [] fn = "parse_statement" -> parse_statement(tk, q)
      [] fn = "parse_expression" -> parse_expression(tk, q)
      [] fn = "parse_primary" -> parse_primary(tk, q)
      [] fn = "parse_function_call" -> parse_function_call(tk, q)
      [] fn = "parse_function_definition" -> parse_function_definition(tk, q)
      [] fn = "parse_loop" -> parse_loop(tk, q)
      [] fn = "parse_branching" -> parse_branching(tk, q)
      [] fn = "parse_table_instance" -> parse_table_instance(tk, q)
      [] fn = "parse_table_put" -> parse_table_put(tk, q)
      [] fn = "parse_table_get" -> parse_table_get(tk, q)

\* parse: parse_block to LX_EOF.
parse(tk, q) == call("parse_block", tk, q, "LX_EOF")

\* The report with the position of the token behind the cursor's.
parsererror_lookahead(tk, q, msg) ==
    [ stage |-> "parse", msg |-> msg,
      line |-> lookahead(tk, q).pos.line_pos + 1, col |-> lookahead(tk, q).pos.col_pos + 1 ]

\* fprintf(stderr, "[err] %s (%d, %d)", msg, tk->pos.line_pos + 1, tk->pos.col_pos + 1); exit(0)
parsererror(tk, q, msg) ==
    [ stage |-> "parse", msg |-> msg,
      line |-> peek(tk, q).pos.line_pos + 1, col |-> peek(tk, q).pos.col_pos + 1 ]

NoReport == [stage |-> "", msg |-> "", line |-> 0, col |-> 0]

---------------------------------------------------------------------------
(* Token vectors for the parser.  The parser of src/unnamed/part_001 reads   *)
(* kinds (LX_IF, LX_ELSE, LX_LOOP, LX_INCLUDE, LX_COLON, ...) that lex of    *)
(* src/src/common.c never gives, so the parser is also run on vectors given  *)
(* to it directly: tokens laid out on their lines one blank apart, LX_EOF    *)
(* last.                                                                     *)

\* The number of cells the text of a token takes.
TokenWidth(t) ==
    CASE t.type \in {"LX_SYMBOL", "LX_BOOL", "LX_NULL", "LX_RETURN", "LX_INTEGER",
                      "LX_IF", "LX_ELSE", "LX_LOOP", "LX_INCLUDE"} -> Len(t.value)
      [] t.type = "LX_STRING" -> Len(t.value) + 2
      [] t.type = "LX_ASSIGN" -> 2
      [] t.type = "LX_OPERATOR" -> IF t.value = <<>> THEN 2 ELSE 1
      [] OTHER -> 1

Tok(type, value) == [type |-> type, value |-> value]
Sym(c) == Tok("LX_SYMBOL", <<c>>)
Num(c) == Tok("LX_INTEGER", <<c>>)
Str(c) == Tok("LX_STRING", <<c>>)
Op(g) == Tok("LX_OPERATOR", g)
T_assign == Tok("LX_ASSIGN", <<>>)
T_newline == Tok("LX_NEWLINE", <<>>)
T_lbrace == Tok("LX_LEFT_BRACE", <<>>)
T_rbrace == Tok("LX_RIGHT_BRACE", <<>>)
T_lparen == Tok("LX_LEFT_PAREN", <<>>)
T_rparen == Tok("LX_RIGHT_PAREN", <<>>)
T_separator == Tok("LX_SEPARATOR", <<>>)
T_colon == Tok("LX_COLON", <<>>)
T_function == Tok("LX_FUNCTION", <<>>)
T_call == Tok("LX_CALL", <<>>)
T_if == Tok("LX_IF", <<"i", "f">>)
T_else == Tok("LX_ELSE", <<"e", "l", "s", "e">>)
T_loop == Tok("LX_LOOP", L_loop)
T_include == Tok("LX_INCLUDE", L_include)
T_return == Tok("LX_RETURN", <<"r", "e", "t", "u", "r", "n">>)
T_eof == Tok("LX_EOF", <<>>)

\* The tokens of the shapes sh from the cursor cur on, then LX_EOF.
RECURSIVE PlaceFrom(_, _)
PlaceFrom(sh, cur) ==
    IF sh = <<>> THEN <<lxtoken_new(<<>>, "LX_EOF", cur)>>
    ELSE LET t == Head(sh)
             w == TokenWidth(t)
             next == IF t.type = "LX_NEWLINE"
                     THEN [ col_pos |-> 0, line_pos |-> cur.line_pos + 1,
                            char_offset |-> cur.char_offset + 1,
                            line_offset |-> cur.char_offset + 1 ]
                     ELSE [ col_pos |-> cur.col_pos + w + 1, line_pos |-> cur.line_pos,
                            char_offset |-> cur.char_offset + w + 1,
                            line_offset |-> cur.line_offset ]
         IN  <<lxtoken_new(t.value, t.type, cur)>> \o PlaceFrom(Tail(sh), next)

Place(sh) ==
    PlaceFrom(sh, [col_pos |-> 0, line_pos |-> 0, char_offset |-> 0, line_offset |-> 0])

\* The kinds and values of a token vector, without its LX_EOF.
RECURSIVE Shapes(_)
Shapes(tk) ==
    IF tk = <<>> \/ Head(tk).type = "LX_EOF" THEN <<>>
    ELSE <<Tok(Head(tk).type, Head(tk).value)>> \o Shapes(Tail(tk))

\* The operator glyphs of the precedence table, and three that are not in it.
TableGlyphs ==
    { <<"*">>, <<"/">>, <<"%">>, <<"+">>, <<"-">>, <<"<">>, <<">">>, <<"<", "=">>,
      <<">", "=">>, <<"=", "=">>, <<"!", "=">>, <<"&">>, <<"^">>, <<"|">>,
      <<"&", "&">>, <<"|", "|">> }
OtherGlyphs == {<<"~">>, <<"!">>, <<>>}

\* The level the precedence table gives a glyph.
TableLevel(g) ==
    CASE g \in {<<"*">>, <<"/">>, <<"%">>} -> 10
      [] g \in {<<"+">>, <<"-">>} -> 9
      [] g \in {<<"<">>, <<">">>, <<"<", "=">>, <<">", "=">>} -> 8
      [] g \in {<<"=", "=">>, <<"!", "=">>} -> 7
      [] g = <<"&">> -> 6
      [] g = <<"^">> -> 5
      [] g = <<"|">> -> 4
      [] g = <<"&", "&">> -> 3
      [] g = <<"|", "|">> -> 2

OperandAt(i) == Sym(<<"a", "b", "c", "d", "e">>[i])
Stmt(e) == <<Sym("x"), T_assign>> \o e

\* a, a OP b, a OP b OP c, ...: up to k binary operators.
RECURSIVE Chains(_)
Chains(k) ==
    IF k = 0 THEN {<<OperandAt(1)>>}
    ELSE Chains(k - 1) \cup
         { e \o <<Op(g), OperandAt(k + 1)>> :
             e \in {c \in Chains(k - 1) : Len(c) = 2 * k - 1},
             g \in TableGlyphs \cup OtherGlyphs }

ExprInputs == {Stmt(e) : e \in Chains(MaxOperators)}

\* Operator tokens in front of an operand: the four unary glyphs and four others.
PrefixGlyphs == {<<"-">>, <<"+">>, <<"!">>, <<"~">>, <<"*">>, <<"<">>, <<"<", "=">>, <<>>}
RECURSIVE OpSeqs(_)
OpSeqs(n) ==
    IF n = 0 THEN {<<>>}
    ELSE OpSeqs(n - 1) \cup
         {Append(s, Op(g)) : s \in {t \in OpSeqs(n - 1) : Len(t) = n - 1}, g \in PrefixGlyphs}
Prefixes == OpSeqs(MaxPrefix)
Parenthesised == <<T_lparen, Sym("a"), Op(<<"*">>), Sym("b"), T_rparen>>

UnaryInputs ==
    {Stmt(pre \o x) : pre \in Prefixes, x \in {<<Sym("a")>>, Parenthesised}}
    \cup {Stmt(pre1 \o <<Sym("a"), Op(g)>> \o pre2 \o <<Sym("b")>>) :
             pre1 \in Prefixes, pre2 \in Prefixes, g \in {<<"*">>, <<"+">>}}
    \cup {Stmt(<<Sym("a"), Op(<<"+">>), Sym("b"), Op(g), Op(u), Sym("c")>>) :
             g \in {<<"*">>, <<"!">>}, u \in PrefixGlyphs}

\* if a { body } followed by up to n clauses: else { body } or else if b { body },
\* each on the line of the closing brace before it or on the next line.
Bodies == {<<>>, <<T_newline, Sym("y"), T_assign, Num("1"), T_newline>>}
Braced(body) == <<T_lbrace>> \o body \o <<T_rbrace>>
ElseClauses ==
    { nl \o <<T_else>> \o cond \o Braced(body) :
        nl \in {<<>>, <<T_newline>>}, cond \in {<<>>, <<T_if, Sym("b")>>}, body \in Bodies }
RECURSIVE ClauseSeqs(_)
ClauseSeqs(n) ==
    IF n = 0 THEN {<<>>}
    ELSE ClauseSeqs(n - 1) \cup
         { s \o c : s \in {t \in ClauseSeqs(n - 1) : Len(SelectSeq(t, LAMBDA k : k.type = "LX_ELSE")) = n - 1},
                    c \in ElseClauses }

BranchInputs ==
    {<<T_if, Sym("a")>> \o Braced(body) \o cs : body \in Bodies, cs \in ClauseSeqs(MaxClauses)}

\* Programs without a newline, and the same programs with newlines put
\* before, between and behind their tokens.
Programs ==
    { Stmt(<<Sym("a"), Op(<<"+">>), Sym("b")>>) \o <<Sym("y"), T_assign, Op(<<"-">>), Sym("c")>>,
      <<T_return, Sym("a"), Op(<<"*">>), Sym("b")>>,
      <<T_if, Sym("a"), T_lbrace, Sym("x"), T_assign, Num("1"), T_rbrace,
        T_else, T_if, Sym("b"), T_lbrace, T_rbrace, T_else, T_lbrace, T_rbrace>>,
      <<T_loop, Sym("a"), T_lbrace, Sym("x"), T_assign, Num("1"), T_rbrace>>,
      Stmt(<<T_function, T_lparen, Sym("a"), T_separator, Sym("b"), T_rparen,
             T_lbrace, T_return, Sym("a"), T_rbrace>>),
      Stmt(<<T_lbrace, Sym("a"), T_colon, Num("1"), T_separator,
             Sym("b"), T_colon, Num("2"), T_rbrace>>),
      <<T_call, Sym("f"), T_lparen, Sym("a"), T_separator, Sym("b"), T_rparen>>,
      <<T_include, Str("s")>> }

RECURSIVE GapSets(_, _)
GapSets(n, last) ==
    IF n = 0 THEN {{}}
    ELSE GapSets(n - 1, last) \cup {g \cup {i} : g \in GapSets(n - 1, last), i \in 0 .. last}

RECURSIVE Interleave(_, _, _)
Interleave(base, gaps, i) ==
    IF i > Len(base) THEN <<>>
    ELSE (IF i \in gaps THEN <<T_newline>> ELSE <<>>)
         \o (IF i < Len(base) THEN <<base[i + 1]>> ELSE <<>>)
         \o Interleave(base, gaps, i + 1)

NewlineInputs ==
    UNION {{Interleave(base, gaps, 0) : gaps \in GapSets(MaxNewlines, Len(base))} : base \in Programs}

\* Programs with one syntax error each.
WrongKindInputs ==
    { <<Sym("x"), Sym("a")>>,
      Stmt(<<T_lparen, Sym("a")>>),
      Stmt(<<T_lparen, Sym("a"), T_rbrace>>),
      <<T_call, Sym("f"), T_lparen, Sym("a")>>,
      <<T_call, Sym("f"), Sym("a")>>,
      Stmt(<<T_function, Sym("a")>>),
      Stmt(<<T_function, T_lparen, Num("1"), T_rparen>>),
      Stmt(<<T_lbrace, Sym("a"), Num("1"), T_rbrace>>),
      <<T_if, Sym("a"), T_lbrace, Sym("x"), T_assign, Num("1")>>,
      <<T_loop, Sym("a"), T_lbrace, T_newline>> }
EofAtPrimaryInputs ==
    { Stmt(<<Num("1"), Op(<<"+">>)>>),
      <<Num("1"), Op(<<"+">>)>>,
      Stmt(<<>>),
      <<T_return>>,
      Stmt(<<Op(<<"-">>)>>),
      Stmt(<<T_lparen>>),
      <<T_call>>,
      <<Sym("y"), T_assign, Num("1"), T_newline>> \o Stmt(<<Sym("a"), Op(<<"*">>)>>) }
InvalidUnaryInputs ==
    { Stmt(<<Op(<<"*">>), Sym("a")>>),
      Stmt(<<Sym("a"), Op(<<"+">>), Op(<<"/">>), Sym("b")>>),
      <<T_return, Op(<<"<">>), Sym("a")>>,
      Stmt(<<Op(<<"-">>), Op(<<"=", "=">>), Sym("a")>>) }
IncludeInputs ==
    { <<T_include, Sym("a")>>,
      <<T_include, Num("1")>>,
      <<T_include, Sym("a"), T_newline, Sym("x"), T_assign, Num("1")>>,
      <<T_include, Op(<<"-">>), Num("1")>> }
MissingBraceInputs ==
    { <<T_loop, Sym("a")>> \o Stmt(<<Num("1")>>),
      <<T_loop, Sym("a")>>,
      <<T_loop, Sym("a"), T_newline, Sym("x")>>,
      <<T_if, Sym("a")>> \o Stmt(<<Num("1")>>),
      <<T_if, Sym("a"), T_lbrace, T_rbrace, T_else>> \o Stmt(<<Num("1")>>),
      <<T_if, Sym("a"), T_lbrace, T_rbrace, T_else, T_if, Sym("b"), Sym("x")>>,
      <<T_if, Sym("a"), T_lbrace, T_rbrace, T_else, T_newline, T_rbrace>>,
      Stmt(<<T_function, T_lparen, T_rparen, Sym("a")>>),
      Stmt(<<T_function, T_lparen, Sym("a"), T_rparen, T_newline, T_lparen>>) }
ErrorInputs ==
    WrongKindInputs \cup EofAtPrimaryInputs \cup InvalidUnaryInputs
        \cup IncludeInputs \cup MissingBraceInputs

ParserInputs ==
    ExprInputs \cup UnaryInputs \cup BranchInputs \cup NewlineInputs \cup ErrorInputs

---------------------------------------------------------------------------
(* main: read the file, lexify, parse, compile. *)

\* The bytes of the buffer known so far: the text, its terminator, and what
\* the lexer has met behind it.
Memory == source \o <<NUL>> \o tail

\* The statuses the process ends with: exit(0) in main, file_error, lexerror
\* and parsererror, return 0 at the end of main.
main_arguments_status == 0
file_error_status == 0
lexerror_status == 0
parsererror_status == 0
main_return == 0

\* The numbers of command-line arguments (argc) the model starts main with.
Argcs == {1, 2, 3}

\* What read_file meets: the file is read, fopen fails, fseek or ftell fails.
ReadOutcomes == {"", "Failed to open file", "Failed to read file"}

\* No call of the compiler has been made.
NoCall == [op |-> "", prog |-> 0, name |-> <<>>, address |-> -1, scope |-> ""]

Init ==
    /\ source \in Sources
    /\ tail = <<>>
    /\ lx = lexer_new(source \o <<NUL>>)
    /\ tokens = <<>>
    /\ pc = "main"
    /\ p = parser_new
    /\ blk = NoNode
    /\ tree = NoNode
    /\ report = NoReport
    /\ compiled = FALSE
    /\ arena = <<>>
    /\ ret = NoCall

\* main: if (argc < 3) { fprintf(stderr, ...); exit(0); }
MainArguments ==
    /\ pc = "main"
    /\ \E argc \in Argcs :
          IF argc < 3
          THEN /\ report' = [ stage |-> "main", msg |-> "Invalid number of arguments recieved!",
                              line |-> 0, col |-> 0 ]
               /\ pc' = "exit"
          ELSE /\ pc' = "read"
               /\ UNCHANGED report
    /\ UNCHANGED <<source, tail, lx, tokens, p, blk, tree, compiled, arena, ret>>

\* main: src = read_file(argv[2]); file_error ends in exit(0).  Then
\* lexer_new(src) and the empty vector.
ReadFile ==
    /\ pc = "read"
    /\ \E outcome \in ReadOutcomes :
          IF outcome # ""
          THEN /\ report' = [stage |-> "file", msg |-> outcome, line |-> 0, col |-> 0]
               /\ pc' = "exit"
          ELSE /\ pc' = "lexify"
               /\ UNCHANGED report
    /\ UNCHANGED <<source, tail, lx, tokens, p, blk, tree, compiled, arena, ret>>

\* The outcomes of one call of lex: on the known bytes, or, when the call
\* reads behind them, on each choice of the bytes it meets there (ext holds
\* exactly the bytes the call needed).
LexOutcomes ==
    IF ~lex(Memory, lx).need
    THEN {[ext |-> <<>>, r |-> lex(Memory, lx)]}
    ELSE { [ext |-> ext, r |-> lex(Memory \o ext, lx)] :
             ext \in { e \in Exts : /\ e # <<>>
                                    /\ Len(tail) + Len(e) <= MaxOverrun
                                    /\ ~lex(Memory \o e, lx).need
                                    /\ lex(Memory \o Front(e), lx).need } }

\* lexify: one turn of while ((token = lex(lx))->type != LX_EOF).
LexToken ==
    /\ pc = "lexify"
    /\ \E o \in LexOutcomes :
        /\ ~o.r.error
        /\ o.r.token.type # "LX_EOF"
        /\ tail' = tail \o o.ext
        /\ lx' = o.r.lx
        /\ tokens' = IF o.r.token.type # "LX_WHITESPACE" /\ o.r.token.type # "LX_COMMENT"
                     THEN Append(tokens, o.r.token)
                     ELSE tokens
    /\ UNCHANGED <<source, pc, p, blk, tree, report, compiled, arena, ret>>

\* lexify: lex returned LX_EOF; the loop ends and the token is pushed.  main
\* then sets up the parser.
LexEof ==
    /\ pc = "lexify"
    /\ \E o \in LexOutcomes :
        /\ ~o.r.error
        /\ o.r.token.type = "LX_EOF"
        /\ tail' = tail \o o.ext
        /\ lx' = o.r.lx
        /\ tokens' = Append(tokens, o.r.token)
    /\ pc' = "parse"
    /\ p' = parser_new
    /\ UNCHANGED <<source, blk, tree, report, compiled, arena, ret>>

\* lex: the default case of the switch: lexerror, which ends in exit(0).
LexError ==
    /\ pc = "lexify"
    /\ \E o \in LexOutcomes :
        /\ o.r.error
        /\ tail' = tail \o o.ext
        /\ lx' = o.r.lx
        /\ report' = lexerror(o.r.lx, "Syntax error! Failed to identify symbol")
    /\ pc' = "exit"
    /\ UNCHANGED <<source, tokens, p, blk, tree, compiled, arena, ret>>

\* lex reads behind the terminator (an unterminated string): the read may be
\* of memory the process does not have.
LexCrash ==
    /\ pc = "lexify"
    /\ lex(Memory, lx).need
    /\ pc' = "crash"
    /\ UNCHANGED <<source, tail, lx, tokens, p, blk, tree, report, compiled, arena, ret>>

\* parse -> parse_block(p, LX_EOF): the block node and the first strip_newlines.
ParseBegin ==
    /\ pc = "parse"
    /\ blk' = astnode_new(L_block, "LX_BLOCK", clone_pos(peek(tokens, p).pos))
    /\ p' = strip_newlines(tokens, p)
    /\ pc' = "blk"
    /\ UNCHANGED <<source, tail, lx, tokens, tree, report, compiled, arena, ret>>

\* parse_block: one turn of while (!is_empty(p) && peek(p)->type != terminal).
ParseStatement ==
    /\ pc = "blk"
    /\ ~is_empty(tokens, p) /\ peek(tokens, p).type # "LX_EOF"
    /\ \E st \in {call("parse_statement", tokens, p, "")} :
           /\ st.err = ""
           /\ blk' = AddChild(blk, st.node)
           /\ p' = strip_newlines(tokens, st.p)
    /\ UNCHANGED <<source, tail, lx, tokens, pc, tree, report, compiled, arena, ret>>

\* parse_block: the statement called parsererror, which ends in exit(0).
ParseError ==
    /\ pc = "blk"
    /\ ~is_empty(tokens, p) /\ peek(tokens, p).type # "LX_EOF"
    /\ \E st \in {call("parse_statement", tokens, p, "")} :
           /\ st.err # ""
           /\ p' = st.p
           /\ report' = parsererror(tokens, st.p, st.err)
    /\ pc' = "exit"
    /\ UNCHANGED <<source, tail, lx, tokens, blk, tree, compiled, arena, ret>>

\* parse_block returns its block, parse returns it to main.
ParseReturn ==
    /\ pc = "blk"
    /\ ~(~is_empty(tokens, p) /\ peek(tokens, p).type # "LX_EOF")
    /\ tree' = blk
    /\ pc' = "compile"
    /\ UNCHANGED <<source, tail, lx, tokens, p, blk, report, compiled, arena, ret>>

\* main: compile(&pp, tree), then the disassembly and return 0.
Compile ==
    /\ pc = "compile"
    /\ compiled' = TRUE
    /\ pc' = "done"
    /\ UNCHANGED <<source, tail, lx, tokens, p, blk, tree, report, arena, ret>>

\* main with a token vector in place of lexify's: parser p = {.position = 0, ...}.
InitParse ==
    /\ source = <<>>
    /\ tail = <<>>
    /\ lx = lexer_new(<<NUL>>)
    /\ tokens \in {Place(sh) : sh \in ParserInputs}
    /\ pc = "parse"
    /\ p = parser_new
    /\ blk = NoNode
    /\ tree = NoNode
    /\ report = NoReport
    /\ compiled = FALSE
    /\ arena = <<>>
    /\ ret = NoCall

Lexify == LexToken \/ LexEof \/ LexError \/ LexCrash
Parse == ParseBegin \/ ParseStatement \/ ParseError \/ ParseReturn

Main == MainArguments \/ ReadFile

\* The status the process has ended with (-1: it has not, or was killed).
ExitStatus ==
    CASE pc = "done" -> main_return
      [] pc = "exit" /\ report.stage = "main" -> main_arguments_status
      [] pc = "exit" /\ report.stage = "file" -> file_error_status
      [] pc = "exit" /\ report.stage = "lex" -> lexerror_status
      [] pc = "exit" /\ report.stage = "parse" -> parsererror_status
      [] OTHER -> -1

Next == Main \/ Lexify \/ Parse \/ Compile

Spec == Init /\ [][Next]_vars

NextParse == Parse \/ Compile

SpecParse == InitParse /\ [][NextParse]_vars

\* main is one thread: the step that is enabled is taken.
SpecParseFair == SpecParse /\ WF_vars(NextParse)

---------------------------------------------------------------------------
(* The compiler.  Only its declarations are at hand (compiler.h, and the   *)
(* map of datatypes.h): programs, their tables, and the registration of    *)
(* names and constants follow the written description of the compiler.     *)

\* The programs of one arena, and the function programs and the entries of
\* all tables together.
MaxPrograms == 3
MaxEntries == 4

\* The names the registration calls are made with.
Names == {<<"a">>, <<"b">>}

\* The names declared global before compile: none, or b.
GlobalChoices == {<<>>, <<[key |-> <<"b">>, value |-> 0]>>}

\* map: the entries in the order they were put; map_get gives the value of
\* the first entry with the key.
map_new == <<>>

map_has(m, key) == \E i \in DOMAIN m : m[i].key = key

map_get(m, key) ==
    m[CHOOSE i \in DOMAIN m : m[i].key = key /\ \A j \in 1..(i - 1) : m[j].key # key].value

map_put(m, key, value) == Append(m, [key |-> key, value |-> value])

\* program: prev is the place of the enclosing program in the arena (0: none).
\* globals holds the names declared global (the top-level program's only).
program_new(prev, argc) ==
    [ prev |-> prev, argc |-> argc, code |-> <<>>, constants |-> <<>>,
      symbol_table |-> map_new, constant_table |-> map_new,
      closure_table |-> map_new, globals |-> map_new ]

\* The enclosing programs of program i, the nearest first, the top-level
\* program last.
RECURSIVE Ancestors(_, _)
Ancestors(ar, i) ==
    IF ar[i].prev = 0 THEN <<>> ELSE <<ar[i].prev>> \o Ancestors(ar, ar[i].prev)

\* The top-level program above program i (i itself when it has no parent).
RootOf(ar, i) == IF ar[i].prev = 0 THEN i ELSE Ancestors(ar, i)[Len(Ancestors(ar, i))]

\* The enclosing programs, the top-level program among them.
Enclosing_with_root(ar, i) == Ancestors(ar, i)

\* The enclosing function bodies of program i, the nearest first: its
\* ancestors but the top-level program, whose names are reached as globals.
Enclosing(ar, i) == SelectSeq(Ancestors(ar, i), LAMBDA j : ar[j].prev # 0)

\* The nearest program of the sequence js that holds name as a local (0: none).
RECURSIVE Holder(_, _, _)
Holder(ar, js, name) ==
    IF js = <<>> THEN 0
    ELSE IF map_has(ar[Head(js)].symbol_table, name) THEN Head(js)
    ELSE Holder(ar, Tail(js), name)

\* A slot one beyond the next free one.
NextSlot_skipping(m) == Len(m) + 1

\* The next free slot of a table: the number of its entries.
NextSlot(m) == Len(m)

\* Every program may declare a name by assigning to it.
MayDeclare_anywhere(ar, i) == TRUE

\* Only the top-level program declares a name by the first assignment to it.
MayDeclare(ar, i) == ar[i].prev = 0

\* dereference_variable: the address and the scope of name seen from program
\* i.  A name held by an enclosing function gets a new closure_table slot of
\* program i, bound to the slot it has there.
dereference_variable(ar, i, name) ==
    LET outer == Holder(ar, Enclosing(ar, i), name)
        root == ar[RootOf(ar, i)]
    IN  IF map_has(ar[i].symbol_table, name)
        THEN [ address |-> map_get(ar[i].symbol_table, name), scope |-> "VM_LOCAL_SCOPE",
               arena |-> ar ]
        ELSE IF outer # 0
        THEN [ address |-> NextSlot(ar[i].closure_table), scope |-> "VM_CLOSED_SCOPE",
               arena |-> [ar EXCEPT ![i].closure_table =
                              map_put(@, name, map_get(ar[outer].symbol_table, name))] ]
        ELSE IF map_has(root.symbol_table, name)
        THEN [ address |-> map_get(root.symbol_table, name), scope |-> "VM_GLOBAL_SCOPE",
               arena |-> ar ]
        ELSE IF map_has(root.globals, name)
        THEN [ address |-> map_get(root.globals, name), scope |-> "VM_GLOBAL_SCOPE",
               arena |-> ar ]
        ELSE [address |-> -1, scope |-> "VM_UNKNOWN_SCOPE", arena |-> ar]

\* register_variable: the address of name where it is known; in the
\* top-level program an unknown name gets the next local slot.
register_variable(ar, i, name) ==
    LET known == dereference_variable(ar, i, name)
    IN  IF known.scope # "VM_UNKNOWN_SCOPE" THEN known
        ELSE IF MayDeclare(ar, i)
        THEN [ address |-> NextSlot(ar[i].symbol_table), scope |-> "VM_LOCAL_SCOPE",
               arena |-> [ar EXCEPT ![i].symbol_table =
                              map_put(@, name, NextSlot(ar[i].symbol_table))] ]
        ELSE known

\* register_unique_variable_local: the next local slot for a name the
\* program does not hold yet, VM_DUPLICATE_IN_SCOPE for one it holds.
register_unique_variable_local(ar, i, name) ==
    IF map_has(ar[i].symbol_table, name)
    THEN [address |-> -1, scope |-> "VM_DUPLICATE_IN_SCOPE", arena |-> ar]
    ELSE [ address |-> NextSlot(ar[i].symbol_table), scope |-> "VM_LOCAL_SCOPE",
           arena |-> [ar EXCEPT ![i].symbol_table =
                          map_put(@, name, NextSlot(ar[i].symbol_table))] ]

\* The literals register_constant is called with: 1, 2 and "1".
Literals ==
    { [tag |-> "AST_INTEGER", text |-> <<"1">>], [tag |-> "AST_INTEGER", text |-> <<"2">>],
      [tag |-> "AST_STRING", text |-> <<"1">>] }

\* The literal text alone.
ConstantKey_text(tag, text) == text

\* The key of a constant in constant_table: its type tag, then its literal text.
ConstantKey(tag, text) == <<tag>> \o text

\* register_constant: the index of the constant in the pool, appended when
\* constant_table does not hold its key yet.
register_constant(ar, i, tag, text) ==
    LET key == ConstantKey(tag, text)
    IN  IF map_has(ar[i].constant_table, key)
        THEN [address |-> map_get(ar[i].constant_table, key), arena |-> ar]
        ELSE [ address |-> Len(ar[i].constants),
               arena |-> [ar EXCEPT ![i].constants = Append(@, [tag |-> tag, text |-> text]),
                                    ![i].constant_table =
                                        map_put(@, key, Len(ar[i].constants))] ]

\* The number of function programs of the arena and of entries of all tables.
RECURSIVE TotalEntries(_)
TotalEntries(ar) ==
    IF ar = <<>> THEN 0
    ELSE (IF Head(ar).prev # 0 THEN 1 ELSE 0) + Len(Head(ar).symbol_table) + Len(Head(ar).closure_table)
         + Len(Head(ar).constant_table) + TotalEntries(Tail(ar))

\* The registration calls on their own: the top-level program is in place,
\* nothing is compiled into it yet.
InitScope ==
    /\ source = <<>>
    /\ tail = <<>>
    /\ lx = lexer_new(<<NUL>>)
    /\ tokens = <<>>
    /\ pc = "api"
    /\ p = parser_new
    /\ blk = NoNode
    /\ tree = NoNode
    /\ report = NoReport
    /\ compiled = FALSE
    /\ \E g \in GlobalChoices : arena = <<[program_new(0, 0) EXCEPT !.globals = g]>>
    /\ ret = NoCall

\* A call of register_variable(&program i, name, &scope).
RegisterVariable ==
    /\ pc = "api"
    /\ \E i \in DOMAIN arena, name \in Names :
         LET r == register_variable(arena, i, name)
         IN  /\ TotalEntries(r.arena) <= MaxEntries
             /\ arena' = r.arena
             /\ ret' = [ op |-> "register_variable", prog |-> i, name |-> name,
                         address |-> r.address, scope |-> r.scope ]
    /\ UNCHANGED <<source, tail, lx, tokens, pc, p, blk, tree, report, compiled>>

\* A call of dereference_variable(&program i, name, &scope).
DereferenceVariable ==
    /\ pc = "api"
    /\ \E i \in DOMAIN arena, name \in Names :
         LET r == dereference_variable(arena, i, name)
         IN  /\ TotalEntries(r.arena) <= MaxEntries
             /\ arena' = r.arena
             /\ ret' = [ op |-> "dereference_variable", prog |-> i, name |-> name,
                         address |-> r.address, scope |-> r.scope ]
    /\ UNCHANGED <<source, tail, lx, tokens, pc, p, blk, tree, report, compiled>>

\* A call of register_unique_variable_local(&program i, name, &scope).
RegisterUnique ==
    /\ pc = "api"
    /\ \E i \in DOMAIN arena, name \in Names :
         LET r == register_unique_variable_local(arena, i, name)
         IN  /\ TotalEntries(r.arena) <= MaxEntries
             /\ arena' = r.arena
             /\ ret' = [ op |-> "register_unique_variable_local", prog |-> i,
                         name |-> name, address |-> r.address, scope |-> r.scope ]
    /\ UNCHANGED <<source, tail, lx, tokens, pc, p, blk, tree, report, compiled>>

\* A call of register_constant(&program i, v).
RegisterConstant ==
    /\ pc = "api"
    /\ \E i \in DOMAIN arena, v \in Literals :
         LET r == register_constant(arena, i, v.tag, v.text)
         IN  /\ TotalEntries(r.arena) <= MaxEntries
             /\ arena' = r.arena
             /\ ret' = [ op |-> "register_constant", prog |-> i, name |-> <<v.tag>> \o v.text,
                         address |-> r.address, scope |-> "" ]
    /\ UNCHANGED <<source, tail, lx, tokens, pc, p, blk, tree, report, compiled>>

\* A function body is entered: a new program whose prev is program i.
FunctionNew ==
    /\ pc = "api"
    /\ Len(arena) < MaxPrograms
    /\ \E i \in DOMAIN arena :
         /\ TotalEntries(Append(arena, program_new(i, 0))) <= MaxEntries
         /\ arena' = Append(arena, program_new(i, 0))
         /\ ret' = [ op |-> "program_new", prog |-> i, name |-> <<>>,
                     address |-> Len(arena) + 1, scope |-> "" ]
    /\ UNCHANGED <<source, tail, lx, tokens, pc, p, blk, tree, report, compiled>>

NextScope ==
    RegisterVariable \/ DereferenceVariable \/ RegisterUnique \/ RegisterConstant \/ FunctionNew

SpecScope == InitScope /\ [][NextScope]_vars

---------------------------------------------------------------------------
(* Properties of the lexer. *)

\* lexify has returned (the parser may have stopped the run afterwards).
Lexed == pc \in {"parse", "blk", "compile", "done"} \/ (pc = "exit" /\ report.stage = "parse")

\* The position of the cell at offset off, counted on the bytes m themselves.
NewlinesBefore(m, off) == Cardinality({i \in 0 .. off - 1 : Mem(m, i) = "\n"})
LineStartOf(m, off) ==
    LET nls == {i \in 0 .. off - 1 : Mem(m, i) = "\n"}
    IN  IF nls = {} THEN 0 ELSE 1 + CHOOSE i \in nls : \A j \in nls : j <= i
PosOfCell(m, off) ==
    [ col_pos |-> off - LineStartOf(m, off), line_pos |-> NewlinesBefore(m, off),
      char_offset |-> off, line_offset |-> LineStartOf(m, off) ]

\* The text of token t begins in the cell t.pos.char_offset of m.
TextBeginsAtPos(m, t) ==
    LET off == t.pos.char_offset
        first == Mem(m, off)
    IN  CASE t.type \in {"LX_SYMBOL", "LX_BOOL", "LX_NULL", "LX_RETURN", "LX_INTEGER"} ->
               /\ t.value # <<>>
               /\ SubSeq(m, off + 1, off + Len(t.value)) = t.value
               /\ off > 0 /\ t.type # "LX_INTEGER" => ~(isalpha(Mem(m, off - 1)) \/ Mem(m, off - 1) = "_")
               /\ off > 0 /\ t.type = "LX_INTEGER" => ~isalnum(Mem(m, off - 1))
          [] t.type = "LX_STRING" ->
               first = "\"" /\ SubSeq(m, off + 2, off + 1 + Len(t.value)) = t.value
          [] t.type = "LX_ASSIGN" -> first = "<" /\ Mem(m, off + 1) = "-"
          [] t.type = "LX_OPERATOR" ->
               IF t.value = <<>> THEN first \in {"<", ">"} /\ Mem(m, off + 1) = "="
               ELSE t.value = <<first>>
          [] t.type = "LX_NEWLINE" -> first = "\n"
          [] t.type = "LX_EOF" -> first = NUL
          [] OTHER -> SingleCharType(first) = t.type

\* The tokens of the vector stand at the first cell of their text, no two of
\* them overlap, and their pos is the position of that cell.
TokensAtFirstCharacter ==
    /\ \A i \in 1 .. Len(tokens) :
          /\ TextBeginsAtPos(Memory, tokens[i])
          /\ tokens[i].pos = PosOfCell(Memory, tokens[i].pos.char_offset)
    /\ \A i \in 1 .. Len(tokens) - 1 :
          tokens[i + 1].pos.char_offset >= tokens[i].pos.char_offset + TokenWidth(tokens[i])

\* A step leaves the tokens already in the vector as they are.
EmittedTokensKept ==
    /\ Len(tokens') >= Len(tokens)
    /\ \A i \in 1 .. Len(tokens) : tokens'[i] = tokens[i]

\* C4: every token of the vector carries the line, column, char_offset and
\* line_offset of the first character of its text (the opening quote of a
\* string), and no later step of the lexer, or of anything after it, changes
\* the pos of a token that is in the vector.
C4_TokenPosIsFirstCharacter ==
    [][TokensAtFirstCharacter' /\ EmittedTokensKept]_vars

\* C4's case: a token of several characters, on a line that is not the first
\* and not in its first column, with the cursor moved on behind it.
C4_Witness ==
    /\ Lexed
    /\ tail = <<>>
    /\ \E i \in 1 .. Len(tokens) :
          /\ TokenWidth(tokens[i]) >= 2
          /\ tokens[i].pos.line_pos >= 1
          /\ tokens[i].pos.col_pos >= 1
          /\ lx.pos.char_offset > tokens[i].pos.char_offset + 1

\* The cells of the text that token t takes.
CellsOf(t) == t.pos.char_offset .. t.pos.char_offset + TokenWidth(t) - 1

\* C1: on every source text on which no lex error is raised, lexify comes to
\* its end, and the vector then holds exactly one LX_EOF, as its last element,
\* no LX_WHITESPACE and no LX_COMMENT, and the tokens of the source text, all
\* of them, in the order in which they begin in it.
C1_TokenVector ==
    /\ pc # "crash"
    /\ Lexed =>
         /\ Len(tokens) >= 1
         /\ \A i \in 1 .. Len(tokens) : tokens[i].type = "LX_EOF" <=> i = Len(tokens)
         /\ \A i \in 1 .. Len(tokens) : tokens[i].type \notin {"LX_WHITESPACE", "LX_COMMENT"}
         /\ \A i \in 1 .. Len(tokens) - 1 :
               tokens[i].pos.char_offset < tokens[i + 1].pos.char_offset
         /\ \A i \in 1 .. Len(tokens) : tokens[i].pos.char_offset <= Len(source)
         /\ \A c \in 0 .. Len(source) - 1 :
               \/ Mem(source, c) \in {" ", "\r", "\t", "#"}
               \/ \E i \in 1 .. Len(tokens) : c \in CellsOf(tokens[i])

\* The two-character sequences that are to be one token.
TwoCharGlyphs ==
    { <<"<", "-">>, <<"<", "=">>, <<">", "=">>, <<"=", "=">>, <<"!", "=">>,
      <<"&", "&">>, <<"|", "|">> }
GlyphChars == {"<", ">", "=", "!", "&", "|", "-"}

\* C5: each of <-, <=, >=, ==, !=, &&, || in the source, outside strings and
\* comments, is lexed as one token over both characters, LX_ASSIGN for <- and
\* LX_OPERATOR for the others; the operator token's value is the glyph, and
\* precedence gives it 8 (<=, >=), 7 (==, !=), 3 (&&), 2 (||).
C5_TwoCharacterTokens ==
    \A c \in 0 .. Len(source) - 2 :
        LET g == <<Mem(source, c), Mem(source, c + 1)>>
        IN  ( /\ g \in TwoCharGlyphs
              /\ \A i \in 0 .. Len(source) - 1 : Mem(source, i) \notin {"\"", "#"}
              /\ c > 0 => Mem(source, c - 1) \notin GlyphChars )
            => /\ report.stage = "lex" => lx.pos.char_offset \notin {c, c + 1}
               /\ Lexed =>
                    /\ \A i \in 1 .. Len(tokens) : tokens[i].pos.char_offset # c + 1
                    /\ \E i \in 1 .. Len(tokens) :
                          /\ tokens[i].pos.char_offset = c
                          /\ IF g = <<"<", "-">> THEN tokens[i].type = "LX_ASSIGN"
                             ELSE /\ tokens[i].type = "LX_OPERATOR"
                                  /\ tokens[i].value = g
                                  /\ precedence(tokens[i]) = TableLevel(g)

\* The characters a token can begin with.
TokenStarts ==
    Letters \cup Digits \cup
    { "_", "\"", NUL, "\n", " ", "\r", "\t", "{", "}", "(", ")", "#", "@", ",", "$",
      "+", "-", "/", "*", "%", "<", ">", "&", "|", "^", "~" }

\* C10: a character that begins no token makes the lexer report one error,
\* with the 1-based line and column of that character, and end the run: no
\* token is pushed for that character or for anything behind it, and neither
\* the parser nor the compiler is started; a text is lexed to its end only if
\* each such character in it lies inside a token (in a string, or behind the
\* first character of <= or >=).
C10_UnknownCharacter ==
    /\ report.stage = "lex" =>
         LET off == lx.pos.char_offset
         IN  /\ pc = "exit"
             /\ Mem(Memory, off) \notin TokenStarts
             /\ report.line = NewlinesBefore(Memory, off) + 1
             /\ report.col = off - LineStartOf(Memory, off) + 1
             /\ \A i \in 1 .. Len(tokens) :
                   tokens[i].pos.char_offset + TokenWidth(tokens[i]) <= off
             /\ p = parser_new /\ blk = NoNode /\ tree = NoNode /\ ~compiled
    /\ Lexed =>
         \A c \in 0 .. Len(source) - 1 :
             Mem(source, c) \notin TokenStarts =>
                 \E i \in 1 .. Len(tokens) :
                     /\ tokens[i].type \in {"LX_STRING", "LX_OPERATOR"}
                     /\ c \in CellsOf(tokens[i]) \ {tokens[i].pos.char_offset}
    /\ pc = "exit" => ~ENABLED Next

\* C10's case: the error is reported for a character that is not the first of
\* its line, on a line that is not the first, with tokens pushed before it.
C10_Witness ==
    /\ report.stage = "lex"
    /\ pc = "exit"
    /\ report.line >= 2
    /\ report.col >= 2
    /\ Len(tokens) >= 1

---------------------------------------------------------------------------
(* Properties of the parser. *)

\* A node without its positions.
RECURSIVE Bare(_)
Bare(n) ==
    [ type |-> n.type, value |-> n.value,
      children |-> [i \in 1 .. Len(n.children) |-> Bare(n.children[i])] ]

BinaryExpr(g, l, r) == [type |-> "AST_BINARY_EXPRESSION", value |-> g, children |-> <<l, r>>]
UnaryExpr(g, x) == [type |-> "AST_UNARY_EXPRESSION", value |-> g, children |-> <<x>>]
Ref(c) == [type |-> "AST_REFERENCE", value |-> <<c>>, children |-> <<>>]

\* The first statement of the program has been parsed.
FirstStatementParsed == pc \in {"blk", "compile", "done", "exit"} /\ Len(blk.children) >= 1

\* C2: for operators OP1, OP2 of the precedence table, x <- a OP1 b OP2 c is
\* parsed without an error, and its expression is BinaryExpr(OP2,
\* BinaryExpr(OP1, a, b), c) if and only if the level of OP1 is at least the
\* level of OP2, and BinaryExpr(OP1, a, BinaryExpr(OP2, b, c)) otherwise.
C2_PrecedenceGrouping ==
    \A sh \in {Shapes(tokens)} :
    \A g1 \in TableGlyphs \cap {sh[i].value : i \in {4} \cap DOMAIN sh},
       g2 \in TableGlyphs \cap {sh[i].value : i \in {6} \cap DOMAIN sh} :
        sh = Stmt(<<Sym("a"), Op(g1), Sym("b"), Op(g2), Sym("c")>>) =>
            /\ pc # "exit"
            /\ pc \in {"compile", "done"} => tree = blk /\ Len(tree.children) = 1
            /\ FirstStatementParsed =>
                 \A e \in {Bare(blk.children[1].children[1])} :
                     /\ e = BinaryExpr(g2, BinaryExpr(g1, Ref("a"), Ref("b")), Ref("c"))
                            <=> TableLevel(g1) >= TableLevel(g2)
                     /\ e = BinaryExpr(g1, Ref("a"), BinaryExpr(g2, Ref("b"), Ref("c")))
                            <=> TableLevel(g1) < TableLevel(g2)

\* C2's case: a two-character operator of a lower level before one of a
\* higher level, parsed to the end, the second operator applied first.
C2_Witness ==
    \E g1 \in TableGlyphs, g2 \in TableGlyphs :
        /\ Len(g1) = 2 /\ TableLevel(g1) < TableLevel(g2)
        /\ Shapes(tokens) = Stmt(<<Sym("a"), Op(g1), Sym("b"), Op(g2), Sym("c")>>)
        /\ pc = "done"
        /\ Bare(tree.children[1].children[1])
             = BinaryExpr(g1, Ref("a"), BinaryExpr(g2, Ref("b"), Ref("c")))

\* C3: on a token vector that ends in LX_EOF and holds no syntax error, parse
\* returns a node of the AST kind Block whose children are the top-level
\* statements in the order of the source, and it returns only when every
\* token before LX_EOF has been consumed.
C3_ParseReturnsBlock ==
    pc \in {"compile", "done"} =>
        /\ tree.type = "AST_BLOCK"
        /\ \A i \in 1 .. Len(tree.children) :
              \E k \in 1 .. Len(tokens) : tokens[k].pos = tree.children[i].pos
        /\ \A i \in 1 .. Len(tree.children) - 1 :
              tree.children[i].pos.char_offset < tree.children[i + 1].pos.char_offset
        /\ p.position = Len(tokens) - 1
        /\ peek(tokens, p).type = "LX_EOF"

\* The token at index k of the vector (0-based, as the parser counts).
TokenAt(k) == tokens[k + 1]
IsNewline(k) == TokenAt(k).type = "LX_NEWLINE"

\* The braces open at index n, counted from index s on.
BraceDepth(s, n) ==
    Cardinality({k \in s .. n - 1 : TokenAt(k).type = "LX_LEFT_BRACE"})
        - Cardinality({k \in s .. n - 1 : TokenAt(k).type = "LX_RIGHT_BRACE"})

\* The first index behind n whose token is not a newline.
NextAfterNewlines(n) ==
    CHOOSE m \in n + 1 .. Len(tokens) - 1 :
        ~IsNewline(m) /\ \A k \in n + 1 .. m - 1 : IsNewline(k)

WithoutNewlines(sh) == SelectSeq(sh, LAMBDA t : t.type # "LX_NEWLINE")

\* What holds of the newlines in every state of a parse.
NewlinesInState ==
    /\ \A i \in 1 .. Len(p.eaten) :
          IsNewline(p.eaten[i].at) => p.eaten[i].by = "strip_newlines"
    /\ \A i \in 1 .. Len(p.eaten) :
          LET k == p.eaten[i].at
          IN  TokenAt(k).type \in {"LX_OPERATOR", "LX_ASSIGN", "LX_RETURN"} /\ IsNewline(k + 1)
              => pc = "exit" /\ report.stage = "parse" /\ p.position = k + 1
    /\ pc \in {"compile", "done"} =>
          /\ \A k \in 0 .. Len(tokens) - 2 :
                IsNewline(k) => \E i \in 1 .. Len(p.eaten) : p.eaten[i].at = k
          /\ \A tk \in {Place(WithoutNewlines(Shapes(tokens)))} :
                \A r \in {parse(tk, parser_new)} : r.err = "" /\ Bare(r.node) = Bare(tree)

\* The index of the first token of the i-th statement of the top-level block
\* (a call's node carries the position of the token behind its @).
StatementStart(i) ==
    LET k == CHOOSE k \in 0 .. Len(tokens) - 1 : TokenAt(k).pos = blk.children[i].pos
    IN  IF blk.children[i].type = "AST_CALL" THEN k - 1 ELSE k
\* The index behind the i-th statement and the newlines that follow it.
StatementEnd(i) ==
    IF i < Len(blk.children) THEN StatementStart(i + 1) ELSE p.position

\* What holds of the newlines the statements of the top-level block were
\* read over: a newline outside the statement's braces is one of those behind
\* the statement, or the next token that is not a newline is { or else.
NewlinesInStatements ==
    pc \in {"blk", "compile", "done"} =>
        \A i \in 1 .. Len(blk.children) :
            \A n \in StatementStart(i) .. StatementEnd(i) - 1 :
                IsNewline(n) /\ BraceDepth(StatementStart(i), n) = 0 =>
                    \/ NextAfterNewlines(n) >= StatementEnd(i)
                    \/ TokenAt(NextAfterNewlines(n)).type \in {"LX_LEFT_BRACE", "LX_ELSE"}

\* The newline at index k stands where the grammar lets a line end: outside
\* parentheses, not behind a token that a primary, a condition, a callee, a
\* file name or a parameter list must follow, and not in front of a token
\* that carries the construct before it on.
LineMayEndAt(k) ==
    LET before == {m \in 0 .. k - 1 : ~IsNewline(m)}
        prev == IF before = {} THEN "" ELSE TokenAt(CHOOSE m \in before : \A j \in before : j <= m).type
        next == TokenAt(NextAfterNewlines(k)).type
    IN  /\ Cardinality({m \in 0 .. k - 1 : TokenAt(m).type = "LX_LEFT_PAREN"})
             = Cardinality({m \in 0 .. k - 1 : TokenAt(m).type = "LX_RIGHT_PAREN"})
        /\ prev \notin {"LX_OPERATOR", "LX_ASSIGN", "LX_RETURN", "LX_COLON", "LX_CALL",
                        "LX_IF", "LX_LOOP", "LX_FUNCTION", "LX_INCLUDE"}
        /\ next \notin {"LX_OPERATOR", "LX_ASSIGN", "LX_COLON", "LX_LEFT_PAREN"}
        /\ ~(prev = "LX_ELSE" /\ next = "LX_IF")

\* What holds of a program that parses without newlines when newlines are
\* put into it: it parses to its end exactly if each of them stands where a
\* line may end.
NewlinesInPrograms ==
    WithoutNewlines(Shapes(tokens)) \in Programs =>
        /\ pc \in {"compile", "done"} => \A k \in 0 .. Len(tokens) - 2 : IsNewline(k) => LineMayEndAt(k)
        /\ pc = "exit" => \E k \in 0 .. Len(tokens) - 2 : IsNewline(k) /\ ~LineMayEndAt(k)

\* C6: the parser takes newline tokens only in strip_newlines, never as part
\* of an expression: a program parsed to its end has all its newlines skipped
\* and the tree of the same program without them; a newline behind a complete
\* primary ends the expression and the statement (a statement runs over a
\* newline only inside its braces, in front of a { or in front of an else);
\* and a newline directly behind an operator, <- or return ends the parse
\* with an error at that newline.  Newlines between the statements of a
\* block, between a header or a parameter list and its {, and around the
\* entries of a table leave the parse as it is without them.
C6_Newlines ==
    NewlinesInState /\ NewlinesInStatements /\ NewlinesInPrograms

\* C6's case: a newline was skipped in front of a statement, and the newline
\* behind the operator of its expression stopped the parse.
C6_Witness ==
    /\ pc = "exit"
    /\ report.msg = "Unexpected token found"
    /\ IsNewline(p.position)
    /\ p.position >= 1 /\ TokenAt(p.position - 1).type = "LX_OPERATOR"
    /\ \E i \in 1 .. Len(p.eaten) : p.eaten[i].by = "strip_newlines"

\* The nodes of a tree.
RECURSIVE NodesOf(_)
NodesOf(n) == {n} \cup UNION {NodesOf(n.children[i]) : i \in 1 .. Len(n.children)}

\* The Branches nodes from n down its last children.
RECURSIVE ChainOf(_)
ChainOf(n) ==
    IF n.children # <<>> /\ n.children[Len(n.children)].type = "AST_BRANCHES"
    THEN <<n>> \o ChainOf(n.children[Len(n.children)])
    ELSE <<n>>

IsBlockNode(n) == n.value = L_block /\ n.type \notin {"AST_BRANCHES", "AST_BINARY_EXPRESSION"}

\* The shape of the chain that begins with the Branches node n.
ChainWellFormed(n) ==
    LET ch == ChainOf(n)
    IN  /\ ch[1].value = L_conditional
        /\ \A i \in 1 .. Len(ch) :
              /\ ch[i].type = "AST_BRANCHES"
              /\ IF ch[i].value = L_conditional
                 THEN /\ Len(ch[i].children) = (IF i < Len(ch) THEN 3 ELSE 2)
                      /\ ~IsBlockNode(ch[i].children[1])
                      /\ ch[i].children[1].type # "AST_BRANCHES"
                      /\ IsBlockNode(ch[i].children[2])
                 ELSE /\ ch[i].value = L_alt
                      /\ i = Len(ch)
                      /\ Len(ch[i].children) = 1
                      /\ IsBlockNode(ch[i].children[1])

\* The else tokens outside all braces, in order, and what each begins.
OuterElses == {k \in 0 .. Len(tokens) - 1 : TokenAt(k).type = "LX_ELSE" /\ BraceDepth(0, k) = 0}
RECURSIVE InOrder(_)
InOrder(S) ==
    IF S = {} THEN <<>>
    ELSE LET m == CHOOSE m \in S : \A k \in S : m <= k IN <<m>> \o InOrder(S \ {m})
ElseValue(k) == IF TokenAt(k + 1).type = "LX_IF" THEN L_conditional ELSE L_alt

\* The else tokens the acceptor takes: up to the first bare else, and it.
RECURSIVE Accepted(_)
Accepted(ks) ==
    IF ks = <<>> THEN <<>>
    ELSE IF ElseValue(Head(ks)) = L_alt THEN <<Head(ks)>>
    ELSE <<Head(ks)>> \o Accepted(Tail(ks))

\* C7: parse_branching builds a chain that leans to the right: the first
\* Branches node is "conditional" with children (condition, body); every
\* else if adds a "conditional" node with (condition, body) as the last child
\* of the node before it; a bare else adds an "alt" node with its body block
\* as only child and ends the chain: an else token behind a bare else block
\* is left where it is and is not made part of the chain.
C7_ElseChain ==
    /\ \A n \in NodesOf(blk) :
          n.type = "AST_BRANCHES" /\ n.value = L_conditional => ChainWellFormed(n)
    /\ Shapes(tokens) \in BranchInputs =>
          LET elses == InOrder(OuterElses)
              taken == Accepted(elses)
          IN  /\ pc = "exit" => Len(blk.children) = 1 /\ report.msg = "Invalid statement!"
              /\ FirstStatementParsed =>
                    /\ [i \in 1 .. Len(ChainOf(blk.children[1])) |-> ChainOf(blk.children[1])[i].value]
                         = <<L_conditional>> \o [i \in 1 .. Len(taken) |-> ElseValue(taken[i])]
                    /\ \A i \in 1 .. Len(taken) :
                          ChainOf(blk.children[1])[i + 1].pos = TokenAt(taken[i]).pos
                    /\ IF Len(taken) < Len(elses)
                       THEN /\ p.position = elses[Len(taken) + 1]
                            /\ pc \in {"blk", "exit"}
                       ELSE p.position = Len(tokens) - 1

\* C7's case: if, else if and, on the next line, a bare else, parsed to the
\* end: three Branches nodes, each the last child of the one before it.
C7_Witness ==
    /\ pc = "done"
    /\ Len(tree.children) = 1
    /\ tree.children[1].type = "AST_BRANCHES"
    /\ Len(ChainOf(tree.children[1])) = 3
    /\ ChainOf(tree.children[1])[3].value = L_alt
    /\ \E k \in OuterElses : k > 0 /\ IsNewline(k - 1) /\ ElseValue(k) = L_alt

\* The operator tokens in primary position: directly behind the token that
\* opens an expression or behind another operator.
PrimaryOperators ==
    { k \in 1 .. Len(tokens) - 1 :
        /\ TokenAt(k).type = "LX_OPERATOR"
        /\ TokenAt(k - 1).type \in {"LX_OPERATOR", "LX_ASSIGN", "LX_RETURN"} }
FourGlyphs == {<<"-">>, <<"+">>, <<"!">>, <<"~">>}
StrayOperators == {k \in PrimaryOperators : TokenAt(k).value \notin FourGlyphs}

\* x behind the prefix operators pre, the last of them applied first.
RECURSIVE Prefixed(_, _)
Prefixed(pre, x) ==
    IF pre = <<>> THEN x ELSE UnaryExpr(pre[1].value, Prefixed(Tail(pre), x))
AllUnary(pre) == \A i \in 1 .. Len(pre) : pre[i].value \in FourGlyphs

\* Every UnaryExpr node stands at an operator in primary position, has one
\* of the four glyphs as value and one child, the primary behind the operator.
UnaryNodes ==
    \A n \in {m \in NodesOf(blk) : m.type = "AST_UNARY_EXPRESSION"} :
        /\ n.value \in FourGlyphs
        /\ Len(n.children) = 1
        /\ \E k \in PrimaryOperators :
              /\ TokenAt(k).pos = n.pos /\ TokenAt(k).value = n.value
              /\ IF TokenAt(k + 1).type = "LX_LEFT_PAREN"
                 THEN n.children[1].pos.char_offset > TokenAt(k + 1).pos.char_offset
                 ELSE /\ n.children[1].pos = TokenAt(k + 1).pos
                      /\ n.children[1].type # "AST_BINARY_EXPRESSION"

\* The operator tokens s begins with, and s behind its first n tokens.
RECURSIVE LeadingOps(_)
LeadingOps(s) ==
    IF s # <<>> /\ s[1].type = "LX_OPERATOR" THEN <<s[1]>> \o LeadingOps(Tail(s)) ELSE <<>>
Behind(s, n) == IF n >= Len(s) THEN <<>> ELSE SubSeq(s, n + 1, Len(s))

\* The trees of x <- pre1 a OP pre2 b and of x <- pre1 ( a * b ), for
\* prefixes pre1, pre2 of unary glyphs.
UnaryTrees ==
    \A sh \in {Shapes(tokens)} :
    \A pre1 \in {LeadingOps(Behind(sh, 2))} :
        /\ \A g \in {<<"*">>, <<"+">>} :
           \A pre2 \in {LeadingOps(Behind(sh, 4 + Len(pre1)))} :
              sh = Stmt(pre1 \o <<Sym("a"), Op(g)>> \o pre2 \o <<Sym("b")>>)
                  /\ AllUnary(pre1) /\ AllUnary(pre2) =>
                  /\ pc # "exit"
                  /\ FirstStatementParsed =>
                       Bare(blk.children[1].children[1])
                         = BinaryExpr(g, Prefixed(pre1, Ref("a")), Prefixed(pre2, Ref("b")))
        /\ sh = Stmt(pre1 \o Parenthesised) /\ AllUnary(pre1) =>
              /\ pc # "exit"
              /\ FirstStatementParsed =>
                   Bare(blk.children[1].children[1])
                     = Prefixed(pre1, BinaryExpr(<<"*">>, Ref("a"), Ref("b")))

\* An operator of another glyph in primary position: the program is not
\* parsed to its end.
StrayOperatorAborts == StrayOperators # {} => pc \notin {"compile", "done"}

\* The operator before token k was taken as a binary operator and is not in
\* the precedence table.
BehindUnknownOperator(k) ==
    /\ TokenAt(k - 1).type = "LX_OPERATOR"
    /\ TokenAt(k - 1).value \notin TableGlyphs
    /\ \E i \in 1 .. Len(p.eaten) : p.eaten[i] = [at |-> k - 1, by |-> "parse_expression"]

C9_ParserErrors ==
    /\ report.stage = "parse" =>
          /\ pc = "exit"
          /\ report.line = TokenAt(p.position).pos.line_pos + 1
          /\ report.col = TokenAt(p.position).pos.col_pos + 1
          /\ tree = NoNode
          /\ ~compiled
          /\ ~ENABLED Next
    /\ \A sh \in {Shapes(tokens)} :
          sh \in ErrorInputs =>
              /\ pc \notin {"compile", "done"}
              /\ tree = NoNode /\ ~compiled
              /\ pc \in {"parse", "blk"} => ENABLED Parse /\ ~ENABLED ParseReturn
              /\ pc = "exit" =>
                    /\ report.stage = "parse"
                    /\ sh \in WrongKindInputs => report.msg = "Unexpected token"
                    /\ sh \in EofAtPrimaryInputs =>
                          IF TokenAt(0).type = "LX_INTEGER"
                          THEN report.msg = "Invalid statement!" /\ p.position = 0
                          ELSE /\ report.msg = "Program has ended prematurely!"
                               /\ TokenAt(p.position).type = "LX_EOF"
                    /\ sh \in InvalidUnaryInputs =>
                          /\ report.msg = "Invalid unary operator"
                          /\ TokenAt(p.position).type = "LX_OPERATOR"
                          /\ TokenAt(p.position).value \notin FourGlyphs
                    /\ sh \in IncludeInputs =>
                          report.msg = "Expected string in include statement!"
                    /\ sh \in MissingBraceInputs =>
                          /\ report.msg = "Unexpected token"
                          /\ TokenAt(p.position).type # "LX_LEFT_BRACE"

\* C9's case: x <- a * on the second line of a program; the error is
\* reported at the LX_EOF token, behind the statement of the first line.
C9_Witness ==
    /\ pc = "exit"
    /\ Shapes(tokens) \in EofAtPrimaryInputs
    /\ Len(blk.children) = 1
    /\ TokenAt(p.position).type = "LX_EOF"
    /\ report = [ stage |-> "parse", msg |-> "Program has ended prematurely!",
                  line |-> 2, col |-> TokenAt(p.position).pos.col_pos + 1 ]

---------------------------------------------------------------------------
(* Further properties of the lexer. *)

\* The quotes of a text.
Quotes(m) == {i \in 0 .. Len(m) - 1 : Mem(m, i) = "\""}

\* A text without comments in which the last string is not closed.
UnterminatedString == Cardinality(Quotes(source)) % 2 = 1 /\ \A i \in 1 .. Len(source) : source[i] # "#"

\* C11: the lexer's cursor never goes behind the end-of-input character, no
\* byte behind it is read, and a text whose last opening quote has no
\* closing quote is not lexed to its end: the run stops with a lex error.
C11_UnterminatedString ==
    /\ lx.pos.char_offset <= Len(source)
    /\ tail = <<>>
    /\ pc # "crash"
    /\ UnterminatedString =>
          /\ ~Lexed
          /\ pc = "exit" => report.stage \in {"main", "file", "lex"}

\* C12: the process ends with status 0 when lexing, parsing and compiling
\* have all succeeded, and with another status whenever an error was
\* reported: a wrong number of arguments, a file, lex or parse error.
C12_ExitCode ==
    /\ pc = "done" => report = NoReport /\ ExitStatus = 0
    /\ pc = "exit" => report # NoReport /\ ExitStatus # 0

\* The cell at which the line of cell c ends: its newline, or the terminator.
LineEndOf(m, c) ==
    LET nls == {i \in c .. Len(m) - 1 : Mem(m, i) = "\n"}
    IN  IF nls = {} THEN Len(m) ELSE CHOOSE i \in nls : \A j \in nls : i <= j

\* The cells of the comments of a text without strings: behind a # up to
\* the end of its line.
CommentCells(m) ==
    {c \in 0 .. Len(m) - 1 : \E h \in 0 .. c - 1 : Mem(m, h) = "#" /\ c < LineEndOf(m, h)}

\* C13: in a text without strings, the characters behind a # up to the end
\* of its line belong to the comment: no token of the vector begins in one of
\* them, and none of them raises a lex error.
C13_Comments ==
    Quotes(source) = {} =>
        /\ \A i \in 1 .. Len(tokens) :
              tokens[i].pos.char_offset \notin CommentCells(source) \cup {c \in 0 .. Len(source) - 1 : source[c + 1] = "#"}
        /\ report.stage = "lex" => lx.pos.char_offset \notin CommentCells(source)

\* The identifiers of a text: where one begins, and its characters.
IsWordChar(c) == isalnum(c) \/ c = "_"
WordStarts(m) ==
    { c \in 0 .. Len(m) - 1 :
        /\ isalpha(Mem(m, c)) \/ Mem(m, c) = "_"
        /\ c > 0 => ~IsWordChar(Mem(m, c - 1)) }
WordAt(m, c) ==
    LET ends == {e \in c + 1 .. Len(m) : e = Len(m) \/ ~IsWordChar(Mem(m, e))}
    IN  SubSeq(m, c + 1, CHOOSE e \in ends : \A f \in ends : e <= f)

\* The kind the identifier w is to have.
KindOfWord(w) ==
    CASE w \in {<<"t", "r", "u", "e">>, <<"f", "a", "l", "s", "e">>} -> "LX_BOOL"
      [] w = <<"n", "u", "l", "l">> -> "LX_NULL"
      [] w = <<"r", "e", "t", "u", "r", "n">> -> "LX_RETURN"
      [] w = <<"i", "f">> -> "LX_IF"
      [] w = <<"e", "l", "s", "e">> -> "LX_ELSE"
      [] w = <<"l", "o", "o", "p">> -> "LX_LOOP"
      [] w = <<"i", "n", "c", "l", "u", "d", "e">> -> "LX_INCLUDE"
      [] OTHER -> "LX_SYMBOL"

\* C14: every identifier of a text without strings and comments is one
\* token of the vector, with the identifier as value and with the kind of its
\* word: LX_BOOL for true and false, LX_NULL for null, LX_RETURN for return,
\* LX_IF for if, LX_ELSE for else, LX_LOOP for loop, LX_INCLUDE for include,
\* LX_SYMBOL for every other.
C14_IdentifierKinds ==
    Lexed /\ Quotes(source) = {} /\ CommentCells(source) = {} =>
        \A c \in WordStarts(source) :
            \E i \in 1 .. Len(tokens) :
                /\ tokens[i].pos.char_offset = c
                /\ tokens[i].value = WordAt(source, c)
                /\ tokens[i].type = KindOfWord(WordAt(source, c))

\* C15: in the vector, char_offset increases from one token to the next and
\* the line never decreases; a newline token carries the line it ends, which
\* is the line of the token before it unless that is a newline or a string
\* over several lines; the token behind a newline token is on the next line.
C15_PositionsIncrease ==
    \A i \in 1 .. Len(tokens) - 1 :
        /\ tokens[i].pos.char_offset < tokens[i + 1].pos.char_offset
        /\ tokens[i].pos.line_pos <= tokens[i + 1].pos.line_pos
        /\ tokens[i].type = "LX_NEWLINE" =>
              tokens[i + 1].pos.line_pos = tokens[i].pos.line_pos + 1
        /\ tokens[i].type \notin {"LX_NEWLINE", "LX_STRING"} =>
              tokens[i + 1].pos.line_pos = tokens[i].pos.line_pos

\* C15 as stated: char_offset never decreases, and every newline token has
\* a line greater than the line of the token before it.
C15_AsStated ==
    \A i \in 1 .. Len(tokens) - 1 :
        /\ tokens[i].pos.char_offset <= tokens[i + 1].pos.char_offset
        /\ tokens[i + 1].type = "LX_NEWLINE" =>
              tokens[i + 1].pos.line_pos > tokens[i].pos.line_pos

\* C15's case: a token, the newline that ends its line, a token on the next line.
C15_Witness ==
    /\ Lexed
    /\ tail = <<>>
    /\ \E i \in 1 .. Len(tokens) - 2 :
          /\ tokens[i].type = "LX_SYMBOL"
          /\ tokens[i + 1].type = "LX_NEWLINE"
          /\ tokens[i + 1].pos.line_pos = tokens[i].pos.line_pos
          /\ tokens[i + 2].type = "LX_SYMBOL"
          /\ tokens[i + 2].pos.line_pos = tokens[i].pos.line_pos + 1


---------------------------------------------------------------------------
(* The compiler: the lowering of the tree into instructions. *)

\* An instruction: the opcode and its operand.  placeholder: the operand is
\* the zero a forward jump is emitted with, its target is not patched in yet.
Instr(op, x) == [op |-> op, x |-> x, placeholder |-> FALSE]
Placeholder(op) == [op |-> op, x |-> 0, placeholder |-> TRUE]

\* The result of a compile function: the arena it leaves, and the message of
\* compilererr when it has failed.
Compiled(ar) == [arena |-> ar, err |-> ""]
compilererr(ar, msg) == [arena |-> ar, err |-> msg]

\* The compile function K on the arena r leaves, unless r has failed.
After(r, K(_)) == IF r.err # "" THEN r ELSE K(r.arena)

\* The index the next instruction of program i gets.
NextIndex(ar, i) == Len(ar[i].code)

\* Appending is monotone: the instruction gets the next index.
emit(ar, i, in) == [ar EXCEPT ![i].code = Append(@, in)]

\* The jump at index at of program i gets its target.
patch(ar, i, at, target) ==
    [ar EXCEPT ![i].code[at + 1] = [@ EXCEPT !.x = target, !.placeholder = FALSE]]

RECURSIVE patch_all(_, _, _, _)
patch_all(ar, i, ats, target) ==
    IF ats = <<>> THEN ar
    ELSE patch_all(patch(ar, i, Head(ats), target), i, Tail(ats), target)

\* The instruction of a binary operator ("": none).
BinaryOp(value) ==
    CASE value = <<"+">> -> "OP_ADD"
      [] value = <<"-">> -> "OP_SUB"
      [] value = <<"*">> -> "OP_MUL"
      [] value = <<"/">> -> "OP_DIV"
      [] value = <<"%">> -> "OP_MOD"
      [] value = <<"&", "&">> -> "OP_AND"
      [] value = <<"|", "|">> -> "OP_OR"
      [] value = <<"=", "=">> -> "OP_EQ"
      [] value = <<"!", "=">> -> "OP_NE"
      [] value = <<"<">> -> "OP_LT"
      [] value = <<"<", "=">> -> "OP_LE"
      [] value = <<">">> -> "OP_GT"
      [] value = <<">", "=">> -> "OP_GE"
      [] OTHER -> ""

\* The load and the store of a scope.
LoadOp(scope) ==
    CASE scope = "VM_LOCAL_SCOPE" -> "OP_LOADL"
      [] scope = "VM_CLOSED_SCOPE" -> "OP_LOADC"
      [] scope = "VM_GLOBAL_SCOPE" -> "OP_LOADG"

StoreOp(scope) ==
    CASE scope = "VM_LOCAL_SCOPE" -> "OP_STORL"
      [] scope = "VM_CLOSED_SCOPE" -> "OP_STORC"
      [] scope = "VM_GLOBAL_SCOPE" -> "OP_STORG"

RECURSIVE compile(_, _, _)
RECURSIVE compile_statement(_, _, _)
RECURSIVE compile_expression(_, _, _)
RECURSIVE CompileEach(_, _, _)
RECURSIVE compile_function(_, _, _)
RECURSIVE compile_loop(_, _, _)
RECURSIVE compile_branches(_, _, _, _)
RECURSIVE compile_table(_, _, _)
RECURSIVE RegisterParams(_, _, _)

\* LOADx name: the load of a name that is referred to.
Load(ar, i, name) ==
    LET r == dereference_variable(ar, i, name)
    IN  IF r.scope = "VM_UNKNOWN_SCOPE" THEN compilererr(ar, "undefined symbol")
        ELSE Compiled(emit(r.arena, i, Instr(LoadOp(r.scope), r.address)))

\* compile(e); STORL/C/G s
compile_assignment(ar, i, s) ==
    After(compile_expression(ar, i, s.children[1]), LAMBDA a :
    LET r == register_variable(a, i, s.value)
    IN  IF r.scope = "VM_UNKNOWN_SCOPE" THEN compilererr(a, "undefined symbol")
        ELSE Compiled(emit(r.arena, i, Instr(StoreOp(r.scope), r.address))))

\* The expressions es, left to right.
CompileEach(ar, i, es) ==
    IF es = <<>> THEN Compiled(ar)
    ELSE After(compile_expression(ar, i, Head(es)), LAMBDA a : CompileEach(a, i, Tail(es)))

\* compile(target); for each arg (left-to-right) compile(arg); CALL n
compile_call(ar, i, c) ==
    After(CompileEach(ar, i, c.children), LAMBDA a :
    Compiled(emit(a, i, Instr("OP_CALL", Len(c.children) - 1))))

\* The parameters as unique locals of program c, in their order.
RegisterParams(ar, c, params) ==
    IF params = <<>> THEN Compiled(ar)
    ELSE LET r == register_unique_variable_local(ar, c, Head(params).value)
         IN  IF r.scope = "VM_DUPLICATE_IN_SCOPE" THEN compilererr(ar, "duplicate in scope")
             ELSE RegisterParams(r.arena, c, Tail(params))

\* A child program with parent = current and argc = |params|; the params as
\* unique locals; the body; the child program appended to the constants of
\* the current program; PUSHK k, then CLOSE c with the number of closed-over
\* slots of the child.
compile_function(ar, i, function) ==
    LET params == function.children[1].children
        c == Len(ar) + 1
    IN  After(RegisterParams(Append(ar, program_new(i, Len(params))), c, params), LAMBDA a :
        After(compile(a, c, function.children[2]), LAMBDA b :
        LET k == Len(b[i].constants)
            d == [b EXCEPT ![i].constants = Append(@, [tag |-> "program", text |-> <<c>>])]
        IN  Compiled(emit(emit(d, i, Instr("OP_PUSHK", k)), i,
                          Instr("OP_CLOSE", Len(d[c].closure_table))))))

\* mark L_start; compile(cond); JIF ->L_end (patched later); compile(body);
\* JMP L_start; mark L_end
compile_loop(ar, i, loop) ==
    LET L_start == NextIndex(ar, i)
    IN  After(compile_expression(ar, i, loop.children[1]), LAMBDA a :
        After(compile(emit(a, i, Placeholder("OP_JIF")), i, loop.children[2]), LAMBDA b :
        LET c == emit(b, i, Instr("OP_JMP", L_start))
        IN  Compiled(patch(c, i, NextIndex(a, i), NextIndex(c, i)))))

\* One branch of the chain and the branches behind it: if conditional,
\* compile cond + JIF ->next; compile body; JMP ->end; mark next; after all
\* branches mark end and patch every JMP ->end (jmps: the ones emitted so far).
compile_branches(ar, i, branch, jmps) ==
    IF branch.value = L_conditional
    THEN After(compile_expression(ar, i, branch.children[1]), LAMBDA a :
         After(compile(emit(a, i, Placeholder("OP_JIF")), i, branch.children[2]), LAMBDA b :
         LET c == emit(b, i, Placeholder("OP_JMP"))
             d == patch(c, i, NextIndex(a, i), NextIndex(c, i))
         IN  IF Len(branch.children) = 3
             THEN compile_branches(d, i, branch.children[3], Append(jmps, NextIndex(b, i)))
             ELSE Compiled(patch_all(d, i, Append(jmps, NextIndex(b, i)), NextIndex(d, i)))))
    ELSE After(compile(ar, i, branch.children[1]), LAMBDA b :
         LET c == emit(b, i, Placeholder("OP_JMP"))
         IN  Compiled(patch_all(c, i, Append(jmps, NextIndex(b, i)), NextIndex(c, i))))

\* TNEW; for each pair: compile(k), compile(v), TPUT
compile_table(ar, i, pairs) ==
    IF pairs = <<>> THEN Compiled(ar)
    ELSE After(CompileEach(ar, i, Head(pairs).children), LAMBDA a :
         compile_table(emit(a, i, Instr("OP_TPUT", 0)), i, Tail(pairs)))

\* LOADx name; compile(key); compile(value); TPUT
compile_table_put(ar, i, put) ==
    After(Load(ar, i, put.value), LAMBDA a :
    After(CompileEach(a, i, put.children), LAMBDA b :
    Compiled(emit(b, i, Instr("OP_TPUT", 0)))))

\* LOADx name; compile(key); TGET
compile_table_get(ar, i, get) ==
    After(Load(ar, i, get.value), LAMBDA a :
    After(CompileEach(a, i, get.children), LAMBDA b :
    Compiled(emit(b, i, Instr("OP_TGET", 0)))))

compile_expression(ar, i, e) ==
    CASE e.type \in {"AST_INTEGER", "AST_FLOAT", "AST_BOOL", "AST_STRING", "AST_NULL"} ->
           LET r == register_constant(ar, i, e.type, e.value)
           IN  Compiled(emit(r.arena, i, Instr("OP_PUSHK", r.address)))
      [] e.type = "AST_REFERENCE" -> Load(ar, i, e.value)
      [] e.type = "AST_UNARY_EXPRESSION" ->
           After(compile_expression(ar, i, e.children[1]), LAMBDA a :
           IF e.value = <<"-">> THEN Compiled(emit(a, i, Instr("OP_NEG", 0)))
           ELSE IF e.value = <<"!">> THEN Compiled(emit(a, i, Instr("OP_NOT", 0)))
           ELSE compilererr(a, "unknown operator"))
      [] e.type = "AST_BINARY_EXPRESSION" ->
           After(CompileEach(ar, i, e.children), LAMBDA a :
           IF BinaryOp(e.value) = "" THEN compilererr(a, "unknown operator")
           ELSE Compiled(emit(a, i, Instr(BinaryOp(e.value), 0))))
      [] e.type = "AST_CALL" -> compile_call(ar, i, e)
      [] e.type = "AST_FUNCTION" -> compile_function(ar, i, e)
      [] e.type = "AST_TABLE" -> compile_table(emit(ar, i, Instr("OP_TNEW", 0)), i, e.children)
      [] e.type = "AST_GET" -> compile_table_get(ar, i, e)
      [] OTHER -> compilererr(ar, "invalid expression")

\* Include: the statements of the file read, compiled into the current
\* program; the files of the model hold none.
run_import(ar, i, filepath) == Compiled(ar)

compile_statement(ar, i, statement) ==
    CASE statement.type = "AST_ASSIGN" -> compile_assignment(ar, i, statement)
      [] statement.type = "AST_CALL" -> compile_call(ar, i, statement)
      [] statement.type = "AST_RETURN" ->
           After(compile_expression(ar, i, statement.children[1]), LAMBDA a :
           Compiled(emit(a, i, Instr("OP_RET", 0))))
      [] statement.type = "AST_LOOP" -> compile_loop(ar, i, statement)
      [] statement.type = "AST_BRANCHES" -> compile_branches(ar, i, statement, <<>>)
      [] statement.type = "AST_PUT" -> compile_table_put(ar, i, statement)
      [] statement.type = "AST_INCLUDE" -> run_import(ar, i, statement.children[1])
      [] OTHER -> compilererr(ar, "invalid statement")

\* The statements of the block, in their order.
RECURSIVE CompileStatements(_, _, _)
CompileStatements(ar, i, statements) ==
    IF statements = <<>> THEN Compiled(ar)
    ELSE After(compile_statement(ar, i, Head(statements)), LAMBDA a :
         CompileStatements(a, i, Tail(statements)))

compile(ar, i, block) == CompileStatements(ar, i, block.children)

\* The statements of the programs that are compiled, and the number of
\* statements of a program.
MaxStatements == 2

CompileStatementShapes ==
    { <<Sym("a"), T_assign, Num("1")>>,
      <<Sym("x"), T_assign, Num("1"), Op(<<"+">>), Num("1"), Op(<<"*">>), Sym("a")>>,
      <<Sym("b"), T_assign, Op(<<"-">>), Sym("a")>>,
      <<T_loop, Sym("a"), Op(<<"<">>), Num("2"), T_lbrace,
        Sym("a"), T_assign, Sym("a"), Op(<<"+">>), Num("1"), T_rbrace>>,
      <<T_if, Sym("a"), T_lbrace, Sym("b"), T_assign, Num("1"), T_rbrace>>,
      <<T_if, Sym("a"), T_lbrace, Sym("b"), T_assign, Num("1"), T_rbrace,
        T_else, T_lbrace, Sym("b"), T_assign, Num("2"), T_rbrace>>,
      <<T_if, Sym("a"), T_lbrace, T_rbrace, T_else, T_if, Sym("b"), T_lbrace,
        T_loop, Sym("a"), T_lbrace, T_rbrace, T_rbrace, T_else, T_lbrace, T_rbrace>>,
      <<Sym("f"), T_assign, T_function, T_lparen, Sym("x"), T_rparen, T_lbrace,
        T_return, T_function, T_lparen, Sym("y"), T_rparen, T_lbrace,
        T_return, Sym("x"), Op(<<"+">>), Sym("y"), T_rbrace, T_rbrace>>,
      <<Sym("f"), T_assign, T_function, T_lparen, Sym("x"), T_separator, Sym("x"), T_rparen,
        T_lbrace, T_rbrace>>,
      <<Sym("f"), T_assign, T_function, T_lparen, Sym("x"), T_rparen, T_lbrace,
        T_loop, Sym("x"), T_lbrace, T_if, Sym("a"), T_lbrace, T_return, Sym("b"), T_rbrace,
        T_rbrace, T_rbrace>>,
      <<T_call, Sym("f"), T_lparen, Sym("a"), T_separator, Num("1"), T_rparen>> }

\* The programs: up to MaxStatements statements, one to a line.
RECURSIVE Lines(_)
Lines(ss) ==
    IF Len(ss) = 1 THEN Head(ss) ELSE Head(ss) \o <<T_newline>> \o Lines(Tail(ss))

CompileInputs ==
    {Lines(ss) : ss \in SeqsUpTo(CompileStatementShapes, MaxStatements) \ {<<>>}}

\* The names declared global before compile: none, b, or a and b.
CompileGlobalChoices ==
    GlobalChoices \cup {<<[key |-> <<"a">>, value |-> 0], [key |-> <<"b">>, value |-> 1]>>}

\* main with the tree of a program in place of parse's: program pp = {...},
\* then compile(&pp, tree).  blk: the block with the statements that are not
\* compiled yet.
InitCompile ==
    /\ source = <<>>
    /\ tail = <<>>
    /\ lx = lexer_new(<<NUL>>)
    /\ tokens \in {Place(sh) : sh \in CompileInputs}
    /\ pc = "compile"
    /\ p = parse(tokens, parser_new).p
    /\ tree = parse(tokens, parser_new).node
    /\ blk = tree
    /\ report = NoReport
    /\ compiled = FALSE
    /\ \E g \in CompileGlobalChoices : arena = <<[program_new(0, 0) EXCEPT !.globals = g]>>
    /\ ret = NoCall

\* compile: one statement of the block is compiled into the top-level program.
CompileStatement ==
    /\ pc = "compile"
    /\ blk.children # <<>>
    /\ LET r == compile_statement(arena, 1, Head(blk.children))
       IN  /\ r.err = ""
           /\ arena' = r.arena
    /\ blk' = [blk EXCEPT !.children = Tail(@)]
    /\ UNCHANGED <<source, tail, lx, tokens, pc, p, tree, report, compiled, ret>>

\* compile: the statement called compilererr; the compilation is given up.
CompileError ==
    /\ pc = "compile"
    /\ blk.children # <<>>
    /\ LET r == compile_statement(arena, 1, Head(blk.children))
       IN  /\ r.err # ""
           /\ report' = [ stage |-> "compile", msg |-> r.err,
                          line |-> Head(blk.children).pos.line_pos + 1,
                          col |-> Head(blk.children).pos.col_pos + 1 ]
    /\ pc' = "exit"
    /\ UNCHANGED <<source, tail, lx, tokens, p, blk, tree, compiled, arena, ret>>

\* compile returns: every statement of the block is compiled.
CompileEnd ==
    /\ pc = "compile"
    /\ blk.children = <<>>
    /\ compiled' = TRUE
    /\ pc' = "done"
    /\ UNCHANGED <<source, tail, lx, tokens, p, blk, tree, report, arena, ret>>

NextCompile == CompileStatement \/ CompileError \/ CompileEnd

SpecCompile == InitCompile /\ [][NextCompile]_vars

---------------------------------------------------------------------------
(* Properties of the compiler's tables. *)

\* The programs of the sequence js that hold name as a local.
HoldersIn(ar, js, name) ==
    {js[k] : k \in {n \in DOMAIN js : map_has(ar[js[n]].symbol_table, name)}}

\* The values the entries of the map m hold for key.
ValuesOf(m, key) == {m[k].value : k \in {n \in DOMAIN m : m[n].key = key}}

\* The five rules of register_variable(P, name), in their order, on the
\* arena ar, for the call r = (P, name, address, scope) that leaves the arena
\* ar2; outer: the ancestors rule (2) looks the name up in.
RulesOfRegisterVariable(ar, ar2, r, outer) ==
    LET P == r.prog
        name == r.name
        root == ar[RootOf(ar, P)]
    IN  IF map_has(ar[P].symbol_table, name)
        THEN /\ r.scope = "VM_LOCAL_SCOPE"
             /\ r.address \in ValuesOf(ar[P].symbol_table, name)
             /\ ar2 = ar
        ELSE IF ar[P].prev # 0 /\ HoldersIn(ar, outer, name) # {}
        THEN /\ r.scope = "VM_CLOSED_SCOPE"
             /\ r.address = Len(ar[P].closure_table)
             /\ Len(ar2[P].closure_table) = Len(ar[P].closure_table) + 1
             /\ SubSeq(ar2[P].closure_table, 1, Len(ar[P].closure_table))
                    = ar[P].closure_table
             /\ ar2[P].closure_table[Len(ar2[P].closure_table)].key = name
             /\ ar2 = [ar EXCEPT ![P].closure_table = ar2[P].closure_table]
        ELSE IF map_has(root.symbol_table, name) \/ map_has(root.globals, name)
        THEN /\ r.scope = "VM_GLOBAL_SCOPE"
             /\ r.address \in ValuesOf(root.symbol_table, name) \cup ValuesOf(root.globals, name)
             /\ ar2 = ar
        ELSE IF ar[P].prev = 0
        THEN /\ r.scope = "VM_LOCAL_SCOPE"
             /\ r.address = Len(ar[P].symbol_table)
             /\ ar2 = [ar EXCEPT ![P].symbol_table =
                          Append(@, [key |-> name, value |-> r.address])]
        ELSE /\ r.scope = "VM_UNKNOWN_SCOPE"
             /\ ar2 = ar

SlotsInOrder(m) ==
    /\ \A k \in DOMAIN m : m[k].value = k - 1
    /\ \A k, n \in DOMAIN m : m[k].key = m[n].key => k = n

\* C18: after any sequence of register_variable and
\* register_unique_variable_local calls on one program, the slots in its
\* symbol_table are exactly 0, 1, ..., n-1 in order of first registration,
\* each name was given its slot exactly once and the slot never changed
\* afterwards; registering a name that is already registered returns its
\* existing address (or DuplicateInScope for register_unique_variable_local)
\* and allocates no new slot.
C18_SymbolSlots ==
    /\ [](\A i \in DOMAIN arena : SlotsInOrder(arena[i].symbol_table))
    /\ [][ /\ \A i \in DOMAIN arena :
                /\ Len(arena'[i].symbol_table) \in
                       {Len(arena[i].symbol_table), Len(arena[i].symbol_table) + 1}
                /\ SubSeq(arena'[i].symbol_table, 1, Len(arena[i].symbol_table))
                       = arena[i].symbol_table
           /\ ( /\ ret'.op \in {"register_variable", "register_unique_variable_local"}
                /\ map_has(arena[ret'.prog].symbol_table, ret'.name) )
              => /\ arena' = arena
                 /\ IF ret'.op = "register_variable"
                    THEN ret'.address \in ValuesOf(arena[ret'.prog].symbol_table, ret'.name)
                    ELSE ret'.scope = "VM_DUPLICATE_IN_SCOPE" ]_vars

\* A program holds two names, and the last call has registered one of them
\* again as a unique local.
C18_Witness ==
    /\ ret.op = "register_unique_variable_local"
    /\ ret.scope = "VM_DUPLICATE_IN_SCOPE"
    /\ Len(arena[ret.prog].symbol_table) = 2
    /\ map_has(arena[ret.prog].symbol_table, ret.name)


\* C19: register_constant returns the existing pool index when a constant
\* with the same type tag and literal text is already in the program's
\* constant pool, and otherwise appends the value and returns the new last
\* index; so after any sequence of calls the pool holds at most one entry per
\* (type tag, literal text), entries stay in insertion order, and every index
\* returned earlier still designates the same value.
C19_ConstantPool ==
    /\ [](\A i \in DOMAIN arena : \A k, n \in DOMAIN arena[i].constants :
             arena[i].constants[k] = arena[i].constants[n] => k = n)
    /\ [][ /\ \A i \in DOMAIN arena :
                SubSeq(arena'[i].constants, 1, Len(arena[i].constants)) = arena[i].constants
           /\ ret'.op = "register_constant" =>
                \A pool \in {arena[ret'.prog].constants} :
                \A v \in {[tag |-> Head(ret'.name), text |-> Tail(ret'.name)]} :
                   IF \E k \in DOMAIN pool : pool[k] = v
                   THEN /\ pool[ret'.address + 1] = v
                        /\ arena' = arena
                   ELSE /\ ret'.address = Len(pool)
                        /\ arena'[ret'.prog].constants = Append(pool, v) ]_vars

\* The pool of a program holds the integer 1 and the string "1", and the
\* last call has registered one of them again.
C19_Witness ==
    /\ ret.op = "register_constant"
    /\ Len(arena[ret.prog].constants) = 2
    /\ {arena[ret.prog].constants[k].text : k \in 1..2} = {<<"1">>}
    /\ ret.address = 0
    /\ Tail(ret.name) = <<"1">>


---------------------------------------------------------------------------
(* Properties of the compiled code. *)

\* The jumps of the code: the indices (from 1) of its JMP and JIF instructions.
Jumps(code) == {k \in DOMAIN code : code[k].op \in {"OP_JMP", "OP_JIF"}}

\* C20: after compilation of any program, including one whose last statement
\* is a loop or an if/else chain, every JMP and JIF instruction in code has
\* as operand a valid index in code (0 <= target < length of code), and no
\* forward jump is left with its placeholder zero operand unpatched.
C20_JumpValidity ==
    pc = "done" =>
        \A i \in DOMAIN arena : \A k \in Jumps(arena[i].code) :
            /\ 0 <= arena[i].code[k].x
            /\ arena[i].code[k].x < Len(arena[i].code)
            /\ ~arena[i].code[k].placeholder


---------------------------------------------------------------------------
(* Further properties of the parser. *)

\* The vector ends in its only LX_EOF.
EndsInOnlyEof(tk) ==
    /\ tk # <<>>
    /\ \A k \in DOMAIN tk : tk[k].type = "LX_EOF" <=> k = Len(tk)

\* The kinds consume_optional is called with.
OptionalKinds == {"LX_NEWLINE", "LX_SEPARATOR", "LX_IF", "LX_LEFT_SQUARE", "LX_DOT"}

\* A parser at position pos.
ParserAt(pos) == [position |-> pos, eaten |-> <<>>]

\* C21: in every state reached while parsing a token vector whose last
\* element is its only Eof, the parser position never decreases and never
\* exceeds the index of the Eof token (eat at Eof returns no token and leaves
\* the position unchanged; consume_optional leaves it unchanged when it
\* returns false), so every peek, and every lookahead taken while the current
\* token is a Symbol, reads a token inside the vector.
C21_PositionInVector ==
    /\ [](EndsInOnlyEof(tokens) /\ pc \in {"parse", "blk", "compile", "done", "exit"} =>
           /\ p.position \in 0..(Len(tokens) - 1)
           /\ Len(p.eaten) = p.position
           /\ \A k \in DOMAIN p.eaten : p.eaten[k].at = k - 1
           /\ \A pos \in 0..p.position :
                /\ pos + 1 \in DOMAIN tokens
                /\ tokens[pos + 1].type = "LX_SYMBOL" =>
                       /\ pos + 2 \in DOMAIN tokens
                       /\ lookahead(tokens, ParserAt(pos)) = tokens[pos + 2]
                /\ IF tokens[pos + 1].type = "LX_EOF"
                   THEN /\ eat(tokens, ParserAt(pos), "").tok = NoToken
                        /\ eat(tokens, ParserAt(pos), "").p = ParserAt(pos)
                   ELSE /\ eat(tokens, ParserAt(pos), "").tok = tokens[pos + 1]
                        /\ eat(tokens, ParserAt(pos), "").p.position = pos + 1
                /\ \A type \in OptionalKinds :
                     IF consume_optional(tokens, ParserAt(pos), type, "").ok
                     THEN /\ tokens[pos + 1].type = type
                          /\ consume_optional(tokens, ParserAt(pos), type, "").p.position
                                 = pos + 1
                     ELSE consume_optional(tokens, ParserAt(pos), type, "").p = ParserAt(pos))
    /\ [][EndsInOnlyEof(tokens) /\ pc \in {"parse", "blk"} =>
             /\ p'.position >= p.position
             /\ SubSeq(p'.eaten, 1, Len(p.eaten)) = p.eaten]_vars

\* The parser has read a program to its Eof, and the token before the Eof is
\* a Symbol: the lookahead taken there has read the Eof.
C21_Witness ==
    /\ pc = "done"
    /\ EndsInOnlyEof(tokens)
    /\ p.position = Len(tokens) - 1
    /\ Len(tokens) >= 2
    /\ tokens[Len(tokens) - 1].type = "LX_SYMBOL"


\* The result r of one iteration begun at position pos: parsererror was
\* called, or the position is behind pos.
ConsumesOrAborts(r, pos) == r.err # "" \/ r.p.position > pos

\* One iteration of each loop of the parser, begun at position pos of the
\* vector tk with the test of the loop passed: the statement loop of
\* parse_block (parse_statement), the operator loop of parse_expression (eat
\* the operator, parse_primary), the else loop of parse_branching, the
\* argument loop (parse_expression), the parameter loop (consume a Symbol)
\* and the table-entry loop.
IterationsFrom(tk, pos) ==
    LET q == ParserAt(pos)
        type == tk[pos + 1].type
    IN  /\ type # "LX_EOF" =>
              /\ ConsumesOrAborts(call("parse_statement", tk, q, ""), pos)
              /\ ConsumesOrAborts(call("parse_expression", tk, q, ""), pos)
              /\ ConsumesOrAborts(TableEntries(tk, q, astnode_new(L_table, "AST_TABLE", NoPos)),
                                  pos)
        /\ ConsumesOrAborts(consume(tk, q, "LX_SYMBOL", ""), pos)
        /\ type = "LX_OPERATOR" =>
              ConsumesOrAborts(call("parse_primary", tk, eat(tk, q, "").p, ""), pos)
        /\ type = "LX_ELSE" => ConsumesOrAborts(ElseChain(tk, q), pos)

\* C22: parse terminates on every finite token vector that ends in Eof: each
\* iteration of the statement loop of parse_block, of the operator loop of
\* parse_expression, of the else loop of parse_branching and of the argument,
\* parameter and table-entry loops either consumes at least one token or
\* aborts with a parse error.
C22_ParseTerminates ==
    /\ <>(pc \in {"done", "exit"})
    /\ [](pc = "parse" /\ EndsInOnlyEof(tokens) =>
             \A pos \in 0..(Len(tokens) - 1) : IterationsFrom(tokens, pos))
    /\ [][pc = "blk" /\ pc' = "blk" => p'.position > p.position]_vars

\* parse has returned a block of two statements or more, read from a vector
\* with an operator in it.
C22_Witness ==
    /\ pc = "done"
    /\ Len(tree.children) >= 2
    /\ \E k \in DOMAIN tokens : tokens[k].type = "LX_OPERATOR"

=============================================================================
